---- MODULE Spec2Model ----
(***************************************************************************)
(* Trival Monitor: the health-check service (src/service.ts), its          *)
(* in-memory repository (src/repository.ts), the HTTP monitor              *)
(* (src/monitor.ts), the statistics / incident computation, the           *)
(* configuration parser (src/config.ts) and the worker's scheduled() and   *)
(* fetch() handlers (src/index.ts).                                        *)
(*                                                                         *)
(* Conventions                                                             *)
(*   - a nullable value (string | null, number | null, Date | undefined)   *)
(*     is None (the empty tuple) or Some(v) (a one-element tuple);         *)
(*   - a Date is its epoch value in milliseconds;                          *)
(*   - an ISO string produced by Date.toISOString() is <<"ISO", ms>>, the  *)
(*     empty string '' of lastCheckTime is the empty tuple;                *)
(*   - uptimePercentage carries two decimals and is kept in hundredths     *)
(*     (7000 stands for 70.00).                                            *)
(***************************************************************************)
EXTENDS Integers, Sequences, FiniteSets, TLC

VARIABLES
    checks,     \* the repository's array of stored HealthCheck rows
    now,        \* the wall clock (ms)
    service,    \* the current HealthCheckService instance (captured props)
    sent,       \* log of notification handler invocations
    calls,      \* log of processHeatCheck calls: who ran it, what it returned
    stats,      \* the last getStats call and its result, None if none yet
    log,        \* what the runtime observed: unhandled rejections, console
                \* errors, how each handler invocation of the worker ended
    inflight    \* the asynchronous work in progress: the frames of the
                \* invocations that are suspended at an await, and the
                \* promises nothing has settled yet

vars == <<checks, now, service, sent, calls, stats, log, inflight>>

----------------------------------------------------------------------------
(* Bounds of the model *)

MaxChecks == 4
MaxThreshold == 2
MaxRun == 12
MaxRestartChecks == 6
MaxRestartThreshold == 3
MaxUptimeChecks == 10
MaxNotifyChecks == 3
MaxTicks == 2
MaxProbes == 2
MaxRequests == 2
MaxAsyncChecks == 4
MaxD1Checks == 4
MaxOverlapChecks == 3
MaxInFlight == 2
MaxLossyChecks == 4
MaxReconfiguredChecks == 4
MaxSaves == 3
MaxLatestSaves == 4
MaxSnapshotChecks == 3
MaxDecisionChecks == 3
MaxLiveChecks == 5
MaxLostTicks == 2

(* Program constants *)

MinGracePeriodFailures == 1
MaxGracePeriodFailures == 10
DefaultGracePeriodFailures == 3
DefaultPingTimeout == 10000
MsPerMinute == 60 * 1000
DayMs == 24 * 60 * 60 * 1000

----------------------------------------------------------------------------
(* Small helpers for the JavaScript value model *)

None == <<>>
Some(x) == <<x>>

Reverse(s) == [i \in 1..Len(s) |-> s[Len(s) + 1 - i]]

\* variant: Math.floor instead of Math.round
MathRound_Floor(a, b) == a \div b

\* Math.round(a / b) for b > 0: round half up
MathRound(a, b) == (2 * a + b) \div (2 * b)

\* Date.prototype.toISOString and new Date(iso).getTime(): an ISO string
\* keeps the millisecond value, so parsing it gives the same instant back
toISOString(ms) == <<"ISO", ms>>
DateParse(iso) == iso[2]

\* s || fallback for a string | null
OrElse(s, fallback) == IF s = None \/ s = Some("") THEN fallback ELSE s[1]

----------------------------------------------------------------------------
(* Configuration (src/config.ts) *)

expectedCodesDefault == 200..299

AppConfig(grace) ==
    [monitor |-> [serviceName |-> "Service",
                  pingTimeout |-> DefaultPingTimeout,
                  gracePeriodFailures |-> grace,
                  expectedCodes |-> expectedCodesDefault]]

\* An environment string is the sequence of its characters, so that parseInt
\* reads it as JavaScript does (a URL or a token, which nothing parses, is
\* kept as one piece); an absent variable is None.

Digits == <<"0", "1", "2", "3", "4", "5", "6", "7", "8", "9">>

IsDigit(c) == \E d \in DOMAIN Digits : Digits[d] = c

DigitValue(c) == (CHOOSE d \in DOMAIN Digits : Digits[d] = c) - 1

\* the value of the longest prefix of digits of s read after acc, digits
\* having been read so far; None when there is no digit at all
RECURSIVE digitsPrefix(_, _, _)
digitsPrefix(s, acc, any) ==
    IF s # <<>> /\ IsDigit(Head(s))
    THEN digitsPrefix(Tail(s), acc * 10 + DigitValue(Head(s)), TRUE)
    ELSE IF any THEN Some(acc) ELSE None

RECURSIVE trimStart(_)
trimStart(s) == IF s # <<>> /\ Head(s) = " " THEN trimStart(Tail(s)) ELSE s

\* parseInt(s, 10): leading white space is skipped, a sign is read, then the
\* longest run of digits; what follows is ignored; NaN (None) without a digit
parseInt(s) ==
    LET t == trimStart(s)
        neg == t # <<>> /\ Head(t) = "-"
        body == IF t # <<>> /\ Head(t) \in {"-", "+"} THEN Tail(t) ELSE t
        n == digitsPrefix(body, 0, FALSE)
    IN IF n = None THEN None
       ELSE IF neg THEN Some(0 - n[1]) ELSE n

\* !v for an optional string: undefined and '' are falsy
Falsy(v) == v = None \/ v[1] = <<>>

\* parseConfig(env): the error it throws, or the configuration it returns
\* (PING_TIMEOUT, EXPECTED_CODES, HTTP_* and SMTP_* are absent from env)
parseConfig(env) ==
    IF Falsy(env.TARGET_URL)
    THEN [threw |-> TRUE,
          message |-> "TARGET_URL environment variable is required"]
    ELSE IF Falsy(env.API_BEARER_TOKEN)
    THEN [threw |-> TRUE,
          message |-> "API_BEARER_TOKEN environment variable is required"]
    ELSE LET gracePeriodFailures ==
                 parseInt(IF Falsy(env.GRACE_PERIOD_FAILURES) THEN <<"3">>
                          ELSE env.GRACE_PERIOD_FAILURES[1])
         IN IF \/ gracePeriodFailures = None
               \/ gracePeriodFailures[1] < MinGracePeriodFailures
               \/ gracePeriodFailures[1] > MaxGracePeriodFailures
            THEN [threw |-> TRUE,
                  message |-> "GRACE_PERIOD_FAILURES must be between 1 and 10"]
            ELSE [threw |-> FALSE,
                  config |-> [monitor |-> AppConfig(gracePeriodFailures[1]).monitor,
                              apiBearerToken |-> env.API_BEARER_TOKEN[1]]]

----------------------------------------------------------------------------
(* The HTTP monitor (src/monitor.ts).  `response` is what the target does: *)
(*   [kind |-> "status", status |-> n, elapsed |-> ms]  it answers         *)
(*   [kind |-> "abort"]                                 the timer fires    *)
(*   [kind |-> "error", message |-> s, elapsed |-> ms]  fetch rejects      *)
(*   [kind |-> "reject", elapsed |-> ms]   fetch rejects with undefined    *)
(*   [kind |-> "setup", elapsed |-> ms]    new AbortController() throws    *)
(* A block either returns a value or throws an error; an error is the      *)
(* thrown object's name and message, None when undefined was thrown.       *)

Returns(value) == [threw |-> FALSE, value |-> value]

Throws(error) == [threw |-> TRUE, error |-> error]

\* await fetch(config.targetUrl, {..., signal})
fetchSettles(response) ==
    IF response.kind = "status"
    THEN Returns([status |-> response.status])
    ELSE IF response.kind = "abort"
    THEN Throws(Some([name |-> "AbortError",
                      message |-> "The operation was aborted"]))
    ELSE IF response.kind = "error"
    THEN Throws(Some([name |-> "TypeError", message |-> response.message]))
    ELSE Throws(None)

\* the inner try after fetch has resolved
afterFetch(cfg, elapsed, status) ==
    IF status \in cfg.expectedCodes
    THEN Returns([up |-> TRUE,
                  responseTime |-> elapsed,
                  err |-> None,
                  statusCode |-> Some(status)])
    ELSE Returns([up |-> FALSE,
                  responseTime |-> elapsed,
                  err |-> Some("Unexpected status code: " \o ToString(status)),
                  statusCode |-> Some(status)])

\* variant: an aborted fetch is reported like any other fetch error
innerCatch_NoTimeoutCase(cfg, elapsed, fetchError) ==
    IF fetchError = None
    THEN Throws(Some([name |-> "TypeError",
                      message |-> "Cannot read properties of undefined"]))
    ELSE Returns([up |-> FALSE,
                  responseTime |-> elapsed,
                  err |-> Some(OrElse(Some(fetchError[1].message), "Fetch failed")),
                  statusCode |-> None])

\* catch (fetchError: any) { ... }: reading fetchError.name throws when
\* fetchError is undefined
innerCatch(cfg, elapsed, fetchError) ==
    IF fetchError = None
    THEN Throws(Some([name |-> "TypeError",
                      message |-> "Cannot read properties of undefined"]))
    ELSE IF fetchError[1].name = "AbortError"
    THEN Returns([up |-> FALSE,
                  responseTime |-> cfg.pingTimeout,
                  err |-> Some("Timeout after " \o ToString(cfg.pingTimeout) \o "ms"),
                  statusCode |-> None])
    ELSE Returns([up |-> FALSE,
                  responseTime |-> elapsed,
                  err |-> Some(OrElse(Some(fetchError[1].message), "Fetch failed")),
                  statusCode |-> None])

\* variant: there is no outer try, the error leaves check()
outerCatch_Rethrow(elapsed, error) == Throws(error)

\* catch (error: any) { ... } of the outer try
outerCatch(elapsed, error) ==
    IF error = None
    THEN Throws(Some([name |-> "TypeError",
                      message |-> "Cannot read properties of undefined"]))
    ELSE Returns([up |-> FALSE,
                  responseTime |-> elapsed,
                  err |-> Some(OrElse(Some(error[1].message), "Unknown error")),
                  statusCode |-> None])

\* check(): what it returns or throws
checkOutcome(cfg, response) ==
    LET elapsed == IF response.kind = "abort" THEN cfg.pingTimeout
                   ELSE response.elapsed
    IN IF response.kind = "setup"
       THEN outerCatch(elapsed,
                       Some([name |-> "ReferenceError",
                             message |-> "AbortController is not defined"]))
       ELSE LET fetched == fetchSettles(response)
                inner == IF fetched.threw
                         THEN innerCatch(cfg, elapsed, fetched.error)
                         ELSE afterFetch(cfg, elapsed, fetched.value.status)
            IN IF inner.threw THEN outerCatch(elapsed, inner.error) ELSE inner

\* the result of a check() that returned
check(cfg, response) == checkOutcome(cfg, response).value

----------------------------------------------------------------------------
(* The in-memory repository (src/repository.ts) *)

\* variant: the row is stored with the column default of the count
save_DefaultCount(repo, result, timestamp, clock) ==
    Append(repo,
           [id |-> Len(repo) + 1,
            up |-> result.up,
            responseTime |-> result.responseTime,
            err |-> result.err,
            statusCode |-> result.statusCode,
            consecutiveFailures |-> 0,
            timestamp |-> IF timestamp = None THEN clock ELSE timestamp[1]])

\* save(result, timestamp): push a row; timestamp || new Date()
save(repo, result, timestamp, clock) ==
    Append(repo,
           [id |-> Len(repo) + 1,
            up |-> result.up,
            responseTime |-> result.responseTime,
            err |-> result.err,
            statusCode |-> result.statusCode,
            consecutiveFailures |-> result.consecutiveFailures,
            timestamp |-> IF timestamp = None THEN clock ELSE timestamp[1]])

\* Array.prototype.slice(-limit): -0 is 0, so slice(-0) is the whole array
sliceLast(arr, limit) ==
    IF limit = 0 \/ limit >= Len(arr)
    THEN arr
    ELSE SubSeq(arr, Len(arr) - limit + 1, Len(arr))

\* latest(limit): checks.slice(-limit).reverse()
latest(repo, limit) == Reverse(sliceLast(repo, limit))

\* variant: latest reverses the stored array itself, checks.reverse()
storeAfterLatest_ReverseInPlace(repo, limit) == Reverse(repo)

\* the stored array after latest(limit): slice() copies, so the reverse()
\* that follows works on the copy
storeAfterLatest(repo, limit) == repo

\* variant: the bounds are exclusive
InPeriodTest_Exclusive(c, startTime, endTime) ==
    c.timestamp > startTime /\ c.timestamp < endTime

InPeriodTest(c, startTime, endTime) ==
    c.timestamp >= startTime /\ c.timestamp <= endTime

\* variant: the filtered rows are returned oldest first
inPeriod_NoReverse(repo, startTime, endTime) ==
    SelectSeq(repo, LAMBDA c : InPeriodTest(c, startTime, endTime))

\* inPeriod(startTime, endTime): checks.filter(...).reverse()
inPeriod(repo, startTime, endTime) ==
    LET RECURSIVE filter(_)
        filter(i) ==
            IF i > Len(repo) THEN <<>>
            ELSE IF InPeriodTest(repo[i], startTime, endTime)
                 THEN <<repo[i]>> \o filter(i + 1)
                 ELSE filter(i + 1)
    IN Reverse(filter(1))

\* the stored array after inPeriod(): filter() copies, so the reverse() that
\* follows works on the copy
storeAfterInPeriod(repo) == repo

----------------------------------------------------------------------------
(* The D1 repository (src/repository.ts, src/db/schema.ts).  The table is  *)
(* the sequence of its rows in insertion order; id is the autoincrement    *)
(* key.                                                                    *)

\* integer('timestamp', { mode: 'timestamp' }): the column holds whole
\* seconds, and a Date is read back from them
toSeconds(ms) == (ms \div 1000) * 1000

\* save(result, timestamp): db.insert(healthCheckSchema).values({...})
saveD1(rows, result, timestamp, clock) ==
    Append(rows,
           [id |-> Len(rows) + 1,
            up |-> result.up,
            responseTime |-> result.responseTime,
            err |-> result.err,
            statusCode |-> result.statusCode,
            consecutiveFailures |-> result.consecutiveFailures,
            timestamp |-> toSeconds(IF timestamp = None THEN clock
                                    ELSE timestamp[1])])

\* orderBy: [desc(healthCheckSchema.timestamp)]: every order of the rows in
\* which the timestamps do not increase; SQL leaves the order of rows with
\* equal timestamps open
orderByTimestampDesc(rows) ==
    {[k \in 1..Len(rows) |-> rows[p[k]]] : p \in
        {q \in Permutations(1..Len(rows)) :
            \A k \in 1..(Len(rows) - 1) :
                rows[q[k]].timestamp >= rows[q[k + 1]].timestamp}}

\* latest(limit): findMany({orderBy, limit}), ordered being the order the
\* database returned
latestD1(ordered, limit) ==
    SubSeq(ordered, 1, IF limit < Len(ordered) THEN limit ELSE Len(ordered))

\* inPeriod(startTime, endTime): findMany({where: and(gte, lte), orderBy});
\* the Date bounds are bound as whole seconds
inPeriodD1(ordered, startTime, endTime) ==
    SelectSeq(ordered, LAMBDA c : /\ c.timestamp >= toSeconds(startTime)
                                  /\ c.timestamp <= toSeconds(endTime))

----------------------------------------------------------------------------
(* The health-check service (src/service.ts) *)

notificationHandlers == <<"console", "smtp">>

\* createHealthCheckService(props): the instance is the closure over its
\* props; it has no field of its own that changes
createHealthCheckService(id, config) ==
    [id |-> id, config |-> config, notificationHandlers |-> notificationHandlers]

\* variant: the count is kept by the instance and starts at 0 with it
getConsecutiveFailures_PerInstance(repo) ==
    IF Len(calls) = 0 \/ calls[Len(calls)].instance # service.id
    THEN 0
    ELSE repo[Len(repo)].consecutiveFailures

\* getConsecutiveFailures(repo): the count of the most recent stored check
getConsecutiveFailures(repo) ==
    LET recentChecks == latest(repo, 1)
    IN IF Len(recentChecks) = 0 THEN 0 ELSE recentChecks[1].consecutiveFailures

\* variant: a successful check keeps the count
newConsecutiveFailures_NoReset(checkResult, consecutiveFailures) ==
    IF checkResult.up THEN consecutiveFailures ELSE consecutiveFailures + 1

\* checkResult.up ? 0 : consecutiveFailures + 1
newConsecutiveFailures(checkResult, consecutiveFailures) ==
    IF checkResult.up THEN 0 ELSE consecutiveFailures + 1

\* variant: the DOWN branch is never taken
downCondition_Never(checkResult, newCount, config) == FALSE

\* variant: the DOWN branch also looks at the status code of the probe
downCondition_UnlessStatus(checkResult, newCount, config) ==
    /\ ~checkResult.up
    /\ newCount = config.monitor.gracePeriodFailures
    /\ checkResult.statusCode = None

\* variant: >= instead of ===
downCondition_AtLeast(checkResult, newCount, config) ==
    ~checkResult.up /\ newCount >= config.monitor.gracePeriodFailures

\* variant: fires again on every multiple of the threshold
downCondition_EveryMultiple(checkResult, newCount, config) ==
    ~checkResult.up /\ newCount % config.monitor.gracePeriodFailures = 0

\* the condition of the DOWN branch
downCondition(checkResult, newCount, config) ==
    ~checkResult.up /\ newCount = config.monitor.gracePeriodFailures

\* variant: > instead of >=
upCondition_Strict(checkResult, consecutiveFailures, config) ==
    checkResult.up /\ consecutiveFailures > config.monitor.gracePeriodFailures

\* variant: every recovery notifies, whatever the grace period
upCondition_AnyRecovery(checkResult, consecutiveFailures, config) ==
    checkResult.up /\ consecutiveFailures >= 1

\* variant: the outcome of the check is not tested
upCondition_IgnoresOutcome(checkResult, consecutiveFailures, config) ==
    consecutiveFailures >= config.monitor.gracePeriodFailures

\* the condition of the UP branch (tried only when the DOWN branch is not taken)
upCondition(checkResult, consecutiveFailures, config) ==
    checkResult.up /\ consecutiveFailures >= config.monitor.gracePeriodFailures

\* variant: the handlers are given the error that began the outage
sendDownNotifications_FirstError(svc, newCount, lastError) ==
    [h \in 1..Len(svc.notificationHandlers) |->
        [kind |-> "down",
         handler |-> svc.notificationHandlers[h],
         serviceName |-> svc.config.monitor.serviceName,
         count |-> newCount,
         lastError |-> IF newCount > 1
                       THEN checks[Len(checks) - newCount + 2].err
                       ELSE lastError]]

\* notificationHandlers.forEach(handler => handler.sendDownNotification(...))
sendDownNotifications(svc, newCount, lastError) ==
    [h \in 1..Len(svc.notificationHandlers) |->
        [kind |-> "down",
         handler |-> svc.notificationHandlers[h],
         serviceName |-> svc.config.monitor.serviceName,
         count |-> newCount,
         lastError |-> lastError]]

\* notificationHandlers.forEach(handler => handler.sendUpNotification(...))
sendUpNotifications(svc, downtimeChecks) ==
    [h \in 1..Len(svc.notificationHandlers) |->
        [kind |-> "up",
         handler |-> svc.notificationHandlers[h],
         serviceName |-> svc.config.monitor.serviceName,
         count |-> downtimeChecks,
         lastError |-> None]]

\* how a handler's send...Notification can end: its promise resolves, its
\* promise rejects (the SMTP handler logs and rethrows), or it throws before
\* returning a promise
HandlerOutcomes == {"resolves", "rejects", "throws"}

\* variant: the handlers are awaited one after the other,
\* for (const handler of notificationHandlers) await handler.send...(...)
forEachHandler_AwaitEach(notes, outcome) ==
    LET failing == {k \in DOMAIN notes : outcome[notes[k].handler] # "resolves"}
        first == IF failing = {} THEN Len(notes)
                 ELSE CHOOSE k \in failing : \A m \in failing : k <= m
    IN [invoked |-> SubSeq(notes, 1, first),
        unhandled |-> <<>>,
        thrown |-> failing # {}]

\* notificationHandlers.forEach(async (handler) => { await handler.send... }):
\* forEach calls the async callback for every handler in turn and drops the
\* promise it returns; a throw or a rejection inside the callback rejects
\* that dropped promise, which nothing handles
forEachHandler(notes, outcome) ==
    [invoked |-> notes,
     unhandled |-> SelectSeq(notes, LAMBDA n : outcome[n.handler] # "resolves"),
     thrown |-> FALSE]

\* how far a handler's send...Notification has got when the forEach callback
\* that called it suspends: the console handler has no await and is done,
\* the SMTP handler is suspended at await emailService.send(...)
startHandlers(notes) ==
    [completed |-> SelectSeq(notes, LAMBDA n : n.handler = "console"),
     pending |-> SelectSeq(notes, LAMBDA n : n.handler # "console")]

\* processHeatCheck() of instance svc, for the outcome checkResult of
\* monitor.check(), over the repository content repo at time clock: the
\* returned result, the repository after save, the handler invocations
processHeatCheck(svc, repo, checkResult, clock) ==
    LET consecutiveFailures == getConsecutiveFailures(repo)
        newCount == newConsecutiveFailures(checkResult, consecutiveFailures)
        result == [up |-> checkResult.up,
                   responseTime |-> checkResult.responseTime,
                   err |-> checkResult.err,
                   statusCode |-> checkResult.statusCode,
                   consecutiveFailures |-> newCount]
    IN [result |-> result,
        repo |-> save(storeAfterLatest(repo, 1), result, None, clock),
        notifications |->
            IF downCondition(checkResult, newCount, svc.config)
            THEN sendDownNotifications(svc, newCount, checkResult.err)
            ELSE IF upCondition(checkResult, consecutiveFailures, svc.config)
            THEN sendUpNotifications(svc, consecutiveFailures)
            ELSE <<>>]

\* how the repository behaves during one processHeatCheck
StoreFaults == {"none", "latestThrows", "saveThrows"}

\* variant: the handlers are called before the row is saved, so that a
\* rejected save comes after the notifications
processHeatCheckIO_NotifyFirst(svc, repo, checkResult, clock, io) ==
    IF io = "latestThrows"
    THEN [threw |-> TRUE, message |-> "repo.latest failed", repo |-> repo,
          notifications |-> <<>>]
    ELSE LET r == processHeatCheck(svc, repo, checkResult, clock)
         IN IF io = "saveThrows"
            THEN [threw |-> TRUE, message |-> "repo.save failed", repo |-> repo,
                  notifications |-> r.notifications]
            ELSE [threw |-> FALSE, result |-> r.result, repo |-> r.repo,
                  notifications |-> r.notifications]

\* processHeatCheck() over a repository whose latest() or save() may reject:
\* the probe has run, then the first rejected await ends the call, before
\* the row is written and before any handler is called
processHeatCheckIO(svc, repo, checkResult, clock, io) ==
    IF io = "latestThrows"
    THEN [threw |-> TRUE, message |-> "repo.latest failed", repo |-> repo,
          notifications |-> <<>>]
    ELSE IF io = "saveThrows"
    THEN [threw |-> TRUE, message |-> "repo.save failed", repo |-> repo,
          notifications |-> <<>>]
    ELSE LET r == processHeatCheck(svc, repo, checkResult, clock)
         IN [threw |-> FALSE, result |-> r.result, repo |-> r.repo,
             notifications |-> r.notifications]

\* variant: scheduled() awaits processHeatCheck() outside of any try
scheduledTry_NoCatch(pr) ==
    IF pr.threw
    THEN [outcome |-> "rejected", error |-> Some(pr.message)]
    ELSE [outcome |-> "completed", error |-> None]

\* try { await service.processHeatCheck() } catch (error) { console.error }
\* of scheduled(): how the handler ends and what it logs
scheduledTry(pr) ==
    IF pr.threw
    THEN [outcome |-> "completed", error |-> Some("[SCHEDULED ERROR] " \o pr.message)]
    ELSE [outcome |-> "completed", error |-> None]

\* String.prototype.replace(piece, ''): the first occurrence of piece is
\* removed, wherever it is (a string is the sequence of its pieces)
RECURSIVE replaceFirst(_, _)
replaceFirst(s, piece) ==
    IF s = <<>> THEN <<>>
    ELSE IF Head(s) = piece THEN Tail(s)
    ELSE <<Head(s)>> \o replaceFirst(Tail(s), piece)

\* variant: any Authorization header is let through
checkAuth_AnyHeader(authHeader, expectedToken) == ~Falsy(authHeader)

\* checkAuth(request, expectedToken), authHeader being the request's
\* Authorization header
checkAuth(authHeader, expectedToken) ==
    IF Falsy(authHeader) THEN FALSE
    ELSE replaceFirst(authHeader[1], "Bearer ") = expectedToken

\* the incident opened by the failing check c
openIncident(c) ==
    [startTime |-> toISOString(c.timestamp),
     endTime |-> None,
     durationMinutes |-> 0,
     errorMessage |-> OrElse(c.err, "Unknown error")]

\* variant: the duration is cut to whole minutes instead of rounded
closeIncident_Truncated(cur, c) ==
    [cur EXCEPT !.endTime = Some(toISOString(c.timestamp)),
                !.durationMinutes =
                    (c.timestamp - DateParse(cur.startTime)) \div MsPerMinute]

\* the open incident cur closed by the succeeding check c
closeIncident(cur, c) ==
    [cur EXCEPT !.endTime = Some(toISOString(c.timestamp)),
                !.durationMinutes =
                    MathRound(c.timestamp - DateParse(cur.startTime), MsPerMinute)]

\* the loop of calculateIncidents over the chronological checks, from index i
RECURSIVE scanIncidents(_, _, _, _)
scanIncidents(chronologicalChecks, i, incidents, currentIncident) ==
    IF i > Len(chronologicalChecks)
    THEN [incidents |-> incidents, currentIncident |-> currentIncident]
    ELSE LET c == chronologicalChecks[i]
         IN IF ~c.up
            THEN IF currentIncident = None
                 THEN scanIncidents(chronologicalChecks, i + 1, incidents,
                                    Some(openIncident(c)))
                 ELSE scanIncidents(chronologicalChecks, i + 1, incidents,
                                    currentIncident)
            ELSE IF currentIncident # None
                 THEN scanIncidents(chronologicalChecks, i + 1,
                                    Append(incidents,
                                           closeIncident(currentIncident[1], c)),
                                    None)
                 ELSE scanIncidents(chronologicalChecks, i + 1, incidents,
                                    currentIncident)

\* variant: the incident still open after the loop is pushed as the loop
\* left it, with the duration it was opened with
ongoingIncident_NoDuration(cur, clock) == <<cur>>

\* variant: the incident still open after the loop is not pushed
ongoingIncident_Dropped(cur, clock) == <<>>

\* the incident still open after the loop, pushed with its duration up to now
ongoingIncident(cur, clock) ==
    <<[cur EXCEPT !.durationMinutes =
            MathRound(clock - DateParse(cur.startTime), MsPerMinute)]>>

\* variant: the checks are scanned as they come, most recent first
calculateIncidents_NotChronological(chks, clock) ==
    LET scan == scanIncidents(chks, 1, <<>>, None)
        all == IF scan.currentIncident # None
               THEN scan.incidents \o
                    <<[scan.currentIncident[1] EXCEPT !.durationMinutes =
                          MathRound(clock - DateParse(scan.currentIncident[1].startTime),
                                    MsPerMinute)]>>
               ELSE scan.incidents
    IN Reverse(all)

\* variant: only the outages that reached the threshold of the running
\* service are reported
calculateIncidents_AlertedOnly(chks, clock) ==
    LET scan == scanIncidents(Reverse(chks), 1, <<>>, None)
        all == IF scan.currentIncident # None
               THEN scan.incidents \o ongoingIncident(scan.currentIncident[1], clock)
               ELSE scan.incidents
        alerted(inc) ==
            \E k \in DOMAIN chks :
                /\ ~chks[k].up
                /\ chks[k].consecutiveFailures >=
                       service.config.monitor.gracePeriodFailures
                /\ chks[k].timestamp >= DateParse(inc.startTime)
                /\ inc.endTime # None =>
                       chks[k].timestamp < DateParse(inc.endTime[1])
    IN Reverse(SelectSeq(all, alerted))

\* calculateIncidents(checks): checks come most recent first
calculateIncidents(chks, clock) ==
    LET scan == scanIncidents(Reverse(chks), 1, <<>>, None)
        all == IF scan.currentIncident # None
               THEN scan.incidents \o ongoingIncident(scan.currentIncident[1], clock)
               ELSE scan.incidents
    IN Reverse(all)

\* variant: no data reads as "up"
emptyStats_Up ==
    [totalChecks |-> 0,
     successfulChecks |-> 0,
     failedChecks |-> 0,
     uptimePercentage |-> 0,
     averageResponseTime |-> 0,
     currentStatus |-> "up",
     lastCheckTime |-> <<>>,
     incidents |-> <<>>]

\* the result of getStats for a range without checks
emptyStats ==
    [totalChecks |-> 0,
     successfulChecks |-> 0,
     failedChecks |-> 0,
     uptimePercentage |-> 0,
     averageResponseTime |-> 0,
     currentStatus |-> "down",
     lastCheckTime |-> <<>>,
     incidents |-> <<>>]

RECURSIVE sumResponseTime(_, _)
sumResponseTime(chks, i) ==
    IF i > Len(chks) THEN 0 ELSE chks[i].responseTime + sumResponseTime(chks, i + 1)

\* getStats from the line after `const checks = await repo.inPeriod(start,
\* end)`: chks is what the read returned, clock the time when it goes on
statsOf(chks, clock) ==
    LET successfulChecks == Cardinality({i \in 1..Len(chks) : chks[i].up})
    IN IF Len(chks) = 0
       THEN emptyStats
       ELSE [totalChecks |-> Len(chks),
             successfulChecks |-> successfulChecks,
             failedChecks |-> Len(chks) - successfulChecks,
             uptimePercentage |-> MathRound(successfulChecks * 100 * 100, Len(chks)),
             averageResponseTime |-> MathRound(sumResponseTime(chks, 1), Len(chks)),
             currentStatus |-> IF chks[1].up THEN "up" ELSE "down",
             lastCheckTime |-> toISOString(chks[1].timestamp),
             incidents |-> calculateIncidents(chks, clock)]

\* variant: the current status is taken from the oldest check of the range
getStats_StatusFromOldest(repo, startTime, endTime, clock) ==
    LET end == IF endTime = None THEN clock ELSE endTime[1]
        start == IF startTime = None THEN clock - DayMs ELSE startTime[1]
        chks == inPeriod(repo, start, end)
        successfulChecks == Cardinality({i \in 1..Len(chks) : chks[i].up})
    IN IF Len(chks) = 0
       THEN emptyStats
       ELSE [totalChecks |-> Len(chks),
             successfulChecks |-> successfulChecks,
             failedChecks |-> Len(chks) - successfulChecks,
             uptimePercentage |-> MathRound(successfulChecks * 100 * 100, Len(chks)),
             averageResponseTime |-> MathRound(sumResponseTime(chks, 1), Len(chks)),
             currentStatus |-> IF chks[Len(chks)].up THEN "up" ELSE "down",
             lastCheckTime |-> toISOString(chks[1].timestamp),
             incidents |-> calculateIncidents(chks, clock)]

\* getStats(startTime, endTime) over the repository content repo at time clock
getStats(repo, startTime, endTime, clock) ==
    LET end == IF endTime = None THEN clock ELSE endTime[1]
        start == IF startTime = None THEN clock - DayMs ELSE startTime[1]
    IN statsOf(inPeriod(repo, start, end), clock)

\* variant: the incidents are computed from a second read of the store,
\* made when getStats goes on after its await
statsAfterRead_SecondRead(chks, repo, start, end, clock) ==
    IF Len(chks) = 0
    THEN emptyStats
    ELSE [statsOf(chks, clock)
             EXCEPT !.incidents = calculateIncidents(inPeriod(repo, start, end), clock)]

\* what getStats returns when it goes on after the await: it works on chks,
\* the array the read returned, and does not look at the store repo again
statsAfterRead(chks, repo, start, end, clock) == statsOf(chks, clock)

----------------------------------------------------------------------------
(* Inputs *)

\* what the target does on a probe
Responses ==
    { [kind |-> "status", status |-> 200, elapsed |-> 100],
      [kind |-> "status", status |-> 500, elapsed |-> 35],
      [kind |-> "abort"] }

GraceResponses ==
    { [kind |-> "status", status |-> 200, elapsed |-> 100],
      [kind |-> "error", message |-> "Connection refused", elapsed |-> 20] }

\* how far the clock moves from one check to the next
ClockSteps == {MsPerMinute \div 2, DayMs}

\* the arguments of getStats
StartArgs == {None, Some(MsPerMinute)}
EndArgs == {None, Some(MsPerMinute + MsPerMinute \div 2)}

----------------------------------------------------------------------------
(* Actions *)

\* one processHeatCheck() call: probe, read latest, save, notify
ProcessHeatCheck(response, step) ==
    LET clock == now + step
        r == processHeatCheck(service, checks,
                              check(service.config.monitor, response), clock)
        n == Len(calls) + 1
    IN /\ now' = clock
       /\ checks' = r.repo
       /\ sent' = sent \o [k \in 1..Len(r.notifications) |->
                              [call |-> n, note |-> r.notifications[k]]]
       /\ calls' = Append(calls, [instance |-> service.id, result |-> r.result])
       /\ stats' = None
       /\ UNCHANGED <<service, log, inflight>>

\* one getStats(startTime, endTime) call
GetStats(startTime, endTime) ==
    /\ stats' = Some([startTime |-> startTime,
                      endTime |-> endTime,
                      at |-> now,
                      result |-> getStats(checks, startTime, endTime, now)])
    /\ checks' = storeAfterInPeriod(checks)
    /\ UNCHANGED <<now, service, sent, calls, log, inflight>>

\* a new service instance over the same repository and configuration
CreateService ==
    /\ service.id <= Len(calls)
    /\ service' = createHealthCheckService(service.id + 1, service.config)
    /\ UNCHANGED <<checks, now, sent, calls, stats, log, inflight>>

----------------------------------------------------------------------------
(* Specifications *)

InitWith(graces) ==
    /\ checks = <<>>
    /\ now = 0
    /\ \E g \in graces : service = createHealthCheckService(1, AppConfig(g))
    /\ sent = <<>>
    /\ calls = <<>>
    /\ stats = None
    /\ log = <<>>
    /\ inflight = <<>>

\* the service with its statistics, all probe outcomes, short histories
Init == InitWith(MinGracePeriodFailures..MaxThreshold)

Check ==
    /\ Len(checks) < MaxChecks
    /\ \E response \in Responses, step \in ClockSteps :
           ProcessHeatCheck(response, step)

Stats ==
    \E startTime \in StartArgs, endTime \in EndArgs : GetStats(startTime, endTime)

Next == Check \/ Stats

Spec == Init /\ [][Next]_vars

\* the grace period over long histories, every configurable threshold
InitGrace == InitWith(MinGracePeriodFailures..MaxGracePeriodFailures)

GraceCheck ==
    /\ Len(checks) < MaxRun
    /\ \E response \in GraceResponses : ProcessHeatCheck(response, MsPerMinute)

NextGrace == GraceCheck

SpecGrace == InitGrace /\ [][NextGrace]_vars

\* service instances created anew over one repository
InitRestart == InitWith(MinGracePeriodFailures..MaxRestartThreshold)

RestartCheck ==
    /\ Len(checks) < MaxRestartChecks
    /\ \E response \in GraceResponses : ProcessHeatCheck(response, MsPerMinute)

NextRestart == RestartCheck \/ CreateService

SpecRestart == InitRestart /\ [][NextRestart]_vars

----------------------------------------------------------------------------
(* Vocabulary of the properties *)

Threshold == service.config.monitor.gracePeriodFailures

Handlers == {notificationHandlers[h] : h \in DOMAIN notificationHandlers}

Up(i) == calls[i].result.up

\* the invocations of handler h of the given kind made by call i
NotesAt(i, kind, h) ==
    {k \in DOMAIN sent : /\ sent[k].call = i
                         /\ sent[k].note.kind = kind
                         /\ sent[k].note.handler = h}

\* every handler invocation made by call i
AnyNotesAt(i) == {k \in DOMAIN sent : sent[k].call = i}

\* the number of consecutive failing calls ending at and including call i,
\* counted from the probe outcomes alone
RECURSIVE FailRun(_)
FailRun(i) == IF i = 0 \/ Up(i) THEN 0 ELSE 1 + FailRun(i - 1)

\* consecutiveFailures of the most recent record stored before call i
PreviousCount(i) == IF i = 1 THEN 0 ELSE checks[i - 1].consecutiveFailures

Bit(b) == IF b THEN 1 ELSE 0

\* the kinds of the invocations of handler h, in the order they were made
RECURSIVE KindsOf(_, _)
KindsOf(h, k) ==
    IF k > Len(sent) THEN <<>>
    ELSE IF sent[k].note.handler = h
         THEN <<sent[k].note.kind>> \o KindsOf(h, k + 1)
         ELSE KindsOf(h, k + 1)

----------------------------------------------------------------------------
\* C1: on a failing check a DOWN notification is sent (once per handler) if
\* and only if the new consecutiveFailures of that check equals the threshold
\* T exactly, which is the T-th failure of the run: never earlier, never later.
C1_DownExactlyAtThreshold ==
    \A i \in 1..Len(calls) :
        ~Up(i) =>
            \A h \in Handlers :
                /\ Cardinality(NotesAt(i, "down", h)) =
                       Bit(calls[i].result.consecutiveFailures = Threshold)
                /\ Cardinality(NotesAt(i, "down", h)) = Bit(FailRun(i) = Threshold)

C1_Witness ==
    /\ Threshold = MaxGracePeriodFailures
    /\ \E i \in 1..Len(calls) :
           /\ FailRun(i) = Threshold
           /\ \A h \in Handlers : NotesAt(i, "down", h) # {}
           /\ \A j \in 1..(i - 1) : AnyNotesAt(j) = {}

\* C2: on a successful check an UP notification is sent (once per handler)
\* if and only if the previous consecutiveFailures, read from the most recent
\* stored record, is >= T; the count it carries is the number of failures
\* accumulated at the recovery; later successes send no UP.
C2_UpOncePerCrossedOutage ==
    \A i \in 1..Len(calls) :
        Up(i) =>
            \A h \in Handlers :
                /\ Cardinality(NotesAt(i, "up", h)) = Bit(PreviousCount(i) >= Threshold)
                /\ Cardinality(NotesAt(i, "up", h)) = Bit(FailRun(i - 1) >= Threshold)
                /\ \A k \in NotesAt(i, "up", h) :
                       /\ sent[k].note.count = FailRun(i - 1)
                       /\ sent[k].note.count >= Threshold

C2_Witness ==
    /\ Threshold = 3
    /\ \E i \in 2..Len(calls) :
           /\ Up(i)
           /\ FailRun(i - 1) = 10
           /\ \A h \in Handlers :
                  \E k \in NotesAt(i, "up", h) : sent[k].note.count = 10
           /\ i < Len(calls)
           /\ Up(i + 1)
           /\ AnyNotesAt(i + 1) = {}

\* C3: a run of at most T-1 failing checks followed by a successful check
\* produces no notification of either kind, and the record stored for the
\* successful check has consecutiveFailures = 0.
C3_SilentSubThresholdDip ==
    \A i \in 1..Len(calls) :
        (Up(i) /\ FailRun(i - 1) <= Threshold - 1) =>
            /\ \A j \in (i - FailRun(i - 1))..i : AnyNotesAt(j) = {}
            /\ checks[i].consecutiveFailures = 0

C3_Witness ==
    /\ Threshold >= 3
    /\ sent = <<>>
    /\ \E i, j \in 1..Len(calls) :
           /\ i < j
           /\ Up(i) /\ FailRun(i - 1) = Threshold - 1
           /\ Up(j) /\ FailRun(j - 1) = Threshold - 1
           /\ checks[j].consecutiveFailures = 0

\* C4: within one outage the failing checks numbered T+1, T+2, ... send no
\* notification; at most one DOWN notification (per handler) is sent per
\* outage, however long it lasts.
C4_NoRepeatBeyondThreshold ==
    /\ \A i \in 1..Len(calls) :
           (~Up(i) /\ FailRun(i) > Threshold) => AnyNotesAt(i) = {}
    /\ \A k1, k2 \in DOMAIN sent :
           ( /\ k1 < k2
             /\ sent[k1].note.kind = "down"
             /\ sent[k2].note.kind = "down"
             /\ sent[k1].note.handler = sent[k2].note.handler )
           => \E m \in sent[k1].call..sent[k2].call : Up(m)

C4_Witness ==
    /\ Threshold = 2
    /\ Len(calls) = MaxRun
    /\ \A i \in 1..Len(calls) : ~Up(i)
    /\ \A h \in Handlers : Cardinality(NotesAt(Threshold, "down", h)) = 1
    /\ Len(sent) = Cardinality(Handlers)

\* C5: for every handler the DOWN and UP notifications strictly alternate,
\* starting with DOWN: every UP is preceded by a DOWN sent since the last UP.
C5_DownUpAlternate ==
    \A h \in Handlers :
        LET kinds == KindsOf(h, 1)
        IN \A j \in 1..Len(kinds) :
               kinds[j] = IF j % 2 = 1 THEN "down" ELSE "up"

C5_Witness ==
    \E h \in Handlers :
        /\ Len(KindsOf(h, 1)) >= 4
        /\ KindsOf(h, 1)[4] = "up"
        /\ Threshold >= 2

\* C6: every stored record has consecutiveFailures = 0 if up, otherwise one
\* more than the record stored immediately before it (0 for the first), which
\* is the number of consecutive failing records ending at that record.
C6_CounterMatchesRun ==
    \A i \in 1..Len(checks) :
        /\ checks[i].up => checks[i].consecutiveFailures = 0
        /\ ~checks[i].up => checks[i].consecutiveFailures = 1 + PreviousCount(i)
        /\ checks[i].consecutiveFailures =
               Cardinality({j \in 1..i : \A m \in j..i : ~checks[m].up})

C6_Witness ==
    \E i \in 4..Len(checks) :
        /\ checks[i - 1].consecutiveFailures = 3
        /\ checks[i].up
        /\ checks[i].consecutiveFailures = 0
        /\ i < Len(checks)
        /\ checks[i + 1].consecutiveFailures = 1

\* C7: a processHeatCheck made by a newly created service instance over the
\* same store computes the consecutiveFailures and sends the notification
\* that follow from the record left by the earlier instance.
C7_StateLivesInStore ==
    \A i \in 2..Len(calls) :
        calls[i].instance # calls[i - 1].instance =>
            /\ calls[i].result.consecutiveFailures =
                   IF Up(i) THEN 0 ELSE checks[i - 1].consecutiveFailures + 1
            /\ calls[i].result.consecutiveFailures = FailRun(i)
            /\ \A h \in Handlers :
                   /\ Cardinality(NotesAt(i, "down", h)) =
                          Bit(~Up(i) /\ FailRun(i - 1) + 1 = Threshold)
                   /\ Cardinality(NotesAt(i, "up", h)) =
                          Bit(Up(i) /\ FailRun(i - 1) >= Threshold)

C7_Witness ==
    /\ Threshold = 3
    /\ Len(calls) = 3
    /\ calls[1].instance = 1 /\ ~Up(1)
    /\ calls[2].instance = 1 /\ ~Up(2)
    /\ calls[3].instance = 2 /\ ~Up(3)
    /\ calls[3].result.consecutiveFailures = 3
    /\ \A h \in Handlers : Cardinality(NotesAt(3, "down", h)) = 1

----------------------------------------------------------------------------
(* Vocabulary of the statistics properties.  getStats leaves the store     *)
(* unchanged and processHeatCheck clears `stats`, so while stats # None    *)
(* `checks` is the store the call has read.                                *)

StatsCalled == stats # None

Result == stats[1].result

\* the bounds of the queried range, defaults applied
RangeStart == IF stats[1].startTime = None THEN stats[1].at - DayMs
              ELSE stats[1].startTime[1]
RangeEnd == IF stats[1].endTime = None THEN stats[1].at ELSE stats[1].endTime[1]

\* the stored records of the queried range, oldest first
InRange ==
    SelectSeq(checks, LAMBDA c : RangeStart <= c.timestamp /\ c.timestamp <= RangeEnd)

\* the positions in rs where a maximal run of failing records begins
RunStarts(rs) ==
    {i \in 1..Len(rs) : ~rs[i].up /\ (i = 1 \/ rs[i - 1].up)}

\* the position in rs where the run of failing records containing i begins
RunStartOf(rs, i) ==
    CHOOSE j \in RunStarts(rs) : j <= i /\ \A m \in j..i : ~rs[m].up

----------------------------------------------------------------------------
\* C8: getStats returns exactly one incident per maximal contiguous run of
\* failing records of the queried range; its startTime is the timestamp and
\* its errorMessage the err of the first failing record of the run; the list
\* is ordered most-recent-first.
C8_OneIncidentPerRun ==
    StatsCalled =>
        LET rs == InRange
            starts == RunStarts(rs)
            incidents == Result.incidents
        IN /\ Len(incidents) = Cardinality(starts)
           /\ \A i \in starts :
                  LET rank == Cardinality({j \in starts : j >= i})
                  IN /\ incidents[rank].startTime = toISOString(rs[i].timestamp)
                     /\ incidents[rank].errorMessage = rs[i].err[1]
           /\ \A k, m \in 1..Len(incidents) :
                  k < m => DateParse(incidents[k].startTime) >=
                           DateParse(incidents[m].startTime)

C8_Witness ==
    /\ StatsCalled
    /\ Len(Result.incidents) = 2
    /\ \E i \in 1..(Len(InRange) - 1) :
           /\ i \in RunStarts(InRange)
           /\ ~InRange[i + 1].up
           /\ InRange[i + 1].err # InRange[i].err
           /\ InRange[i + 1].timestamp > InRange[i].timestamp
           /\ Result.incidents[2].errorMessage = InRange[i].err[1]
           /\ Result.incidents[2].startTime = toISOString(InRange[i].timestamp)
    /\ DateParse(Result.incidents[1].startTime) > DateParse(Result.incidents[2].startTime)

\* C9: when the chronologically last record of the queried range is failing,
\* the incident of that final run has endTime = null and is the first element
\* of the list; every other incident has a non-null endTime.
C9_OngoingIncidentFirst ==
    StatsCalled =>
        LET rs == InRange
            incidents == Result.incidents
        IN /\ (Len(rs) > 0 /\ ~rs[Len(rs)].up) =>
                  /\ Len(incidents) >= 1
                  /\ incidents[1].endTime = None
                  /\ incidents[1].startTime =
                         toISOString(rs[RunStartOf(rs, Len(rs))].timestamp)
           /\ \A k \in 2..Len(incidents) : incidents[k].endTime # None

C9_Witness ==
    /\ StatsCalled
    /\ Len(InRange) > 0
    /\ ~InRange[Len(InRange)].up
    /\ Len(Result.incidents) = 2
    /\ Result.incidents[1].endTime = None
    /\ Result.incidents[2].endTime # None

\* C10: getStats over a range that contains no records returns totalChecks,
\* successfulChecks, failedChecks, uptimePercentage and averageResponseTime 0,
\* currentStatus "down" and no incidents.
C10_EmptyRangeStats ==
    (StatsCalled /\ Len(InRange) = 0) =>
        /\ Result.totalChecks = 0
        /\ Result.successfulChecks = 0
        /\ Result.failedChecks = 0
        /\ Result.uptimePercentage = 0
        /\ Result.averageResponseTime = 0
        /\ Result.currentStatus = "down"
        /\ Result.incidents = <<>>

C10_Witness ==
    /\ StatsCalled
    /\ Len(InRange) = 0
    /\ Len(checks) > 0
    /\ \E i \in 1..Len(checks) : checks[i].up
    /\ Result.totalChecks = 0
    /\ Result.currentStatus = "down"

----------------------------------------------------------------------------
(* Statistics over longer histories *)

InitUptime == InitWith({DefaultGracePeriodFailures})

UptimeCheck ==
    /\ Len(checks) < MaxUptimeChecks
    /\ \E response \in GraceResponses : ProcessHeatCheck(response, MsPerMinute)

NextUptime == UptimeCheck \/ Stats

SpecUptime == InitUptime /\ [][NextUptime]_vars

RECURSIVE SumOfResponseTimes(_)
SumOfResponseTimes(rs) ==
    IF rs = <<>> THEN 0 ELSE Head(rs).responseTime + SumOfResponseTimes(Tail(rs))

\* C11: for a non-empty range getStats returns totalChecks = number of
\* records in range, successfulChecks = number of them that are up,
\* failedChecks = the rest, uptimePercentage = successfulChecks / totalChecks
\* * 100 rounded to two decimals (within 0..100) and averageResponseTime =
\* the sum of the response times / totalChecks rounded to an integer.
C11_AggregateCounters ==
    (StatsCalled /\ Len(InRange) > 0) =>
        LET rs == InRange
            n == Len(rs)
            ups == Cardinality({i \in 1..n : rs[i].up})
            total == SumOfResponseTimes(rs)
            pct == Result.uptimePercentage
            avg == Result.averageResponseTime
        IN /\ Result.totalChecks = n
           /\ Result.successfulChecks = ups
           /\ Result.failedChecks = n - ups
           /\ Result.failedChecks = Cardinality({i \in 1..n : ~rs[i].up})
           \* pct / 100 is the multiple of 0.01 nearest to ups / n * 100
           /\ 2 * n * pct - n <= 2 * ups * 100 * 100
           /\ 2 * ups * 100 * 100 < 2 * n * pct + n
           /\ pct >= 0 /\ pct <= 100 * 100
           \* avg is the integer nearest to total / n
           /\ 2 * n * avg - n <= 2 * total
           /\ 2 * total < 2 * n * avg + n

C11_Witness ==
    /\ StatsCalled
    /\ Result.totalChecks = 10
    /\ Result.successfulChecks = 7
    /\ Result.failedChecks = 3
    /\ Result.uptimePercentage = 70 * 100
    /\ Result.averageResponseTime = 76

----------------------------------------------------------------------------
\* the positions in the store of the records of the queried range
InRangeIndexes ==
    {i \in DOMAIN checks :
        RangeStart <= checks[i].timestamp /\ checks[i].timestamp <= RangeEnd}

\* C12: for a non-empty range currentStatus is "up" iff the record of the
\* range with the greatest timestamp is up, and lastCheckTime is that
\* record's timestamp.
C12_StatusFromMostRecent ==
    (StatsCalled /\ InRangeIndexes # {}) =>
        LET m == CHOOSE i \in InRangeIndexes :
                     \A j \in InRangeIndexes : checks[i].timestamp >= checks[j].timestamp
        IN /\ Result.currentStatus = "up" <=> checks[m].up
           /\ Result.currentStatus \in {"up", "down"}
           /\ Result.lastCheckTime = toISOString(checks[m].timestamp)

C12_Witness ==
    /\ StatsCalled
    /\ Cardinality(InRangeIndexes) >= 2
    /\ Result.currentStatus = "down"
    /\ checks[Len(checks)].up
    /\ Len(checks) \notin InRangeIndexes
    /\ \E i \in InRangeIndexes : checks[i].up
    /\ \E i \in InRangeIndexes :
           ~checks[i].up /\ Result.lastCheckTime = toISOString(checks[i].timestamp)

\* C13: getStats(start, end) computes its result from exactly the stored
\* records with start <= timestamp <= end, both bounds inclusive; an omitted
\* end is now, an omitted start is now minus 24 hours, so that by default a
\* record older than 24 hours is not counted.
C13_ExactlyTheRange ==
    StatsCalled =>
        LET call == stats[1]
            lo == IF call.startTime = None THEN call.at - 24 * 60 * 60 * 1000
                  ELSE call.startTime[1]
            hi == IF call.endTime = None THEN call.at ELSE call.endTime[1]
            inside == {i \in DOMAIN checks :
                          lo <= checks[i].timestamp /\ checks[i].timestamp <= hi}
            only == SelectSeq(checks, LAMBDA c : lo <= c.timestamp /\ c.timestamp <= hi)
        IN /\ Result.totalChecks = Cardinality(inside)
           /\ Result.successfulChecks = Cardinality({i \in inside : checks[i].up})
           \* the records outside the range have no influence on any field
           /\ Result = getStats(only, call.startTime, call.endTime, call.at)
           \* the defaults are the same query as the explicit bounds
           /\ Result = getStats(only, Some(lo), Some(hi), call.at)

C13_Witness ==
    /\ StatsCalled
    /\ stats[1].startTime = None
    /\ stats[1].endTime = None
    /\ \E i \in DOMAIN checks : checks[i].timestamp < stats[1].at - DayMs
    /\ \E i \in DOMAIN checks : checks[i].timestamp = stats[1].at - DayMs
    /\ \E i \in DOMAIN checks : checks[i].timestamp = stats[1].at
    /\ Result.totalChecks = 2
    /\ Len(checks) = 3

\* the record c with its consecutiveFailures erased
WithoutCount(c) == [c EXCEPT !.consecutiveFailures = 0]

\* C14: a run of fewer than T failing checks followed by a success is an
\* incident of getStats although no handler was invoked for any check of it,
\* and the incidents are a function of the records' outcomes and timestamps
\* alone, whatever the threshold.
C14_IncidentsBelowThreshold ==
    StatsCalled =>
        /\ \A i \in InRangeIndexes :
               (/\ ~checks[i].up
                /\ i + 1 \in InRangeIndexes
                /\ checks[i + 1].up
                /\ checks[i].consecutiveFailures < Threshold)
               => LET first == CHOOSE j \in InRangeIndexes :
                                   /\ j <= i
                                   /\ \A m \in j..i : ~checks[m].up
                                   /\ (j - 1 \in InRangeIndexes => checks[j - 1].up)
                  IN /\ \A m \in first..(i + 1) : AnyNotesAt(m) = {}
                     /\ \E k \in DOMAIN Result.incidents :
                            /\ Result.incidents[k].startTime =
                                   toISOString(checks[first].timestamp)
                            /\ Result.incidents[k].endTime =
                                   Some(toISOString(checks[i + 1].timestamp))
        /\ Result.incidents =
               calculateIncidents(
                   Reverse([k \in DOMAIN InRange |-> WithoutCount(InRange[k])]),
                   stats[1].at)

C14_Witness ==
    /\ StatsCalled
    /\ Threshold = 2
    /\ sent = <<>>
    /\ Len(Result.incidents) = 1
    /\ Result.incidents[1].endTime # None
    /\ \E i \in InRangeIndexes :
           /\ ~checks[i].up
           /\ checks[i].consecutiveFailures = 1
           /\ i + 1 \in InRangeIndexes
           /\ checks[i + 1].up

\* C15: every processHeatCheck appends exactly one record, and latest(1)
\* read right after it returns the up, responseTime, err, statusCode and
\* consecutiveFailures that the call returned.
C15_SavedRecordReadsBack ==
    /\ Len(checks) = Len(calls)
    /\ calls # <<>> =>
           LET returned == calls[Len(calls)].result
               read == latest(checks, 1)
           IN /\ Len(read) = 1
              /\ read[1].up = returned.up
              /\ read[1].responseTime = returned.responseTime
              /\ read[1].err = returned.err
              /\ read[1].statusCode = returned.statusCode
              /\ read[1].consecutiveFailures = returned.consecutiveFailures
              /\ read[1].timestamp = now

C15_Witness ==
    /\ Len(calls) = 3
    /\ stats = None
    /\ calls[3].result.consecutiveFailures = 2
    /\ calls[3].result.statusCode = None
    /\ calls[3].result.err # None
    /\ calls[2].result.statusCode = Some(500)
    /\ latest(checks, 1)[1].consecutiveFailures = 2

\* C16: the store is append-only: no step changes or removes a stored
\* record; getStats leaves the store as it is, and processHeatCheck changes
\* it only by appending one record.
C16_AppendOnly ==
    [][ /\ Len(checks') >= Len(checks)
        /\ SubSeq(checks', 1, Len(checks)) = checks
        /\ calls' = calls => checks' = checks
        /\ calls' # calls => Len(checks') = Len(checks) + 1 ]_vars

C16_Witness ==
    /\ StatsCalled
    /\ Len(checks) = 3
    /\ Len(calls) = 3
    /\ Len(InRange) = 2
    /\ \E i, j \in DOMAIN checks : checks[i].up /\ ~checks[j].up

\* C18: a DOWN notification carries the configured service name, the new
\* count of consecutive failures, which is T, and the err of the check that
\* crossed the threshold, the latest failure of the outage.
C18_DownCarriesLatestError ==
    \A k \in DOMAIN sent :
        sent[k].note.kind = "down" =>
            LET i == sent[k].call
            IN /\ sent[k].note.serviceName = service.config.monitor.serviceName
               /\ sent[k].note.count = Threshold
               /\ sent[k].note.count = calls[i].result.consecutiveFailures
               /\ sent[k].note.count = FailRun(i)
               /\ sent[k].note.lastError = calls[i].result.err
               /\ sent[k].note.lastError # None

C18_Witness ==
    /\ Threshold = 2
    /\ Len(calls) >= 2
    /\ \E k \in DOMAIN sent :
           /\ sent[k].note.kind = "down"
           /\ sent[k].call >= 2
           /\ ~calls[sent[k].call - 1].result.up
           /\ calls[sent[k].call - 1].result.err # calls[sent[k].call].result.err
           /\ sent[k].note.lastError = calls[sent[k].call].result.err
           /\ sent[k].note.lastError # calls[sent[k].call - 1].result.err

----------------------------------------------------------------------------
(* Notification handlers that fail *)

\* processHeatCheck() with handlers that end as outcome says; a call that
\* rejects returns nothing to its caller
NotifyCheck(response, step, outcome) ==
    LET clock == now + step
        r == processHeatCheck(service, checks,
                              check(service.config.monitor, response), clock)
        d == forEachHandler(r.notifications, outcome)
        n == Len(checks) + 1
    IN /\ now' = clock
       /\ checks' = r.repo
       /\ sent' = sent \o [k \in 1..Len(d.invoked) |->
                              [call |-> n, note |-> d.invoked[k]]]
       /\ calls' = IF d.thrown THEN calls
                   ELSE Append(calls, [instance |-> service.id, result |-> r.result])
       /\ log' = log
                 \o [k \in 1..Len(d.unhandled) |->
                        [event |-> "unhandledRejection", call |-> n,
                         handler |-> d.unhandled[k].handler]]
                 \o (IF d.thrown
                     THEN <<[event |-> "processHeatCheckRejected", call |-> n,
                             handler |-> d.invoked[Len(d.invoked)].handler]>>
                     ELSE <<>>)
       /\ stats' = None
       /\ UNCHANGED <<service, inflight>>

InitNotify == InitWith(MinGracePeriodFailures..MaxThreshold)

FailingHandlersCheck ==
    /\ Len(checks) < MaxNotifyChecks
    /\ \E response \in GraceResponses :
       \E outcome \in [{notificationHandlers[h] : h \in DOMAIN notificationHandlers}
                          -> HandlerOutcomes] :
           NotifyCheck(response, MsPerMinute, outcome)

NextNotify == FailingHandlersCheck

SpecNotify == InitNotify /\ [][NextNotify]_vars

\* the calls whose probe outcome and stored history made a notification due
NotificationDue(i) ==
    \/ ~checks[i].up /\ checks[i].consecutiveFailures = Threshold
    \/ checks[i].up /\ i > 1 /\ checks[i - 1].consecutiveFailures >= Threshold

\* C17: when a notification fires every registered handler is invoked
\* exactly once for it, whether or not another handler failed, and no
\* handler failure reaches the caller: every call returned the result that
\* it saved.
C17_HandlersIndependent ==
    /\ \A i \in DOMAIN checks :
           NotificationDue(i) =>
               \A h \in Handlers :
                   Cardinality({k \in DOMAIN sent :
                                   sent[k].call = i /\ sent[k].note.handler = h}) = 1
    /\ Len(calls) = Len(checks)
    /\ \A i \in DOMAIN calls :
           /\ calls[i].result.up = checks[i].up
           /\ calls[i].result.consecutiveFailures = checks[i].consecutiveFailures
    /\ \A k \in DOMAIN log : log[k].event # "processHeatCheckRejected"

C17_Witness ==
    /\ Len(calls) = 2
    /\ \E k \in DOMAIN log :
           /\ log[k].event = "unhandledRejection"
           /\ log[k].handler = notificationHandlers[1]
           /\ log[k].call = 2
    /\ \E k \in DOMAIN sent :
           /\ sent[k].call = 2
           /\ sent[k].note.handler = notificationHandlers[2]
           /\ sent[k].note.kind = "down"
    /\ ~calls[2].result.up
    /\ calls[2].result.consecutiveFailures = 2

----------------------------------------------------------------------------
(* The worker (src/index.ts): scheduled() and fetch() *)

WorkerEvent(event, env, fault, outcome, status, error) ==
    [event |-> event, env |-> env, fault |-> fault, outcome |-> outcome,
     status |-> status, error |-> error]

\* scheduled(): parseConfig outside the try, processHeatCheck inside it
Scheduled(env, response, io) ==
    LET cfg == parseConfig(env)
    IN IF cfg.threw
       THEN /\ log' = Append(log, WorkerEvent("scheduled", env, "none", "rejected",
                                              0, Some(cfg.message)))
            /\ UNCHANGED <<checks, now, service, sent, calls, stats, inflight>>
       ELSE LET svc == createHealthCheckService(service.id + 1, cfg.config)
                clock == now + MsPerMinute
                pr == processHeatCheckIO(svc, checks,
                                         check(svc.config.monitor, response),
                                         clock, io)
                end == scheduledTry(pr)
                n == Len(checks) + 1
            IN /\ now' = clock
               /\ service' = svc
               /\ checks' = pr.repo
               /\ sent' = sent \o [k \in 1..Len(pr.notifications) |->
                                      [call |-> n, note |-> pr.notifications[k]]]
               /\ calls' = IF pr.threw THEN calls
                           ELSE Append(calls, [instance |-> svc.id,
                                               result |-> pr.result])
               /\ log' = log \o <<WorkerEvent("probe", env, io, "completed", 0, None),
                                  WorkerEvent("scheduled", env, io, end.outcome,
                                              0, end.error)>>
               /\ stats' = None
               /\ UNCHANGED inflight

\* fetch(request, env), response being what the target does if it is probed
FetchRequest(env, request, response) ==
    LET cfg == parseConfig(env)
        answer(status, error) ==
            WorkerEvent("fetch", env, "none", "responded", status, error)
                @@ [request |-> request]
    IN IF cfg.threw
       THEN /\ log' = Append(log, answer(500, Some(cfg.message)))
            /\ UNCHANGED <<checks, now, service, sent, calls, stats, inflight>>
       ELSE IF ~checkAuth(request.authorization, cfg.config.apiBearerToken)
       THEN /\ log' = Append(log, answer(401, None))
            /\ UNCHANGED <<checks, now, service, sent, calls, stats, inflight>>
       ELSE LET svc == createHealthCheckService(service.id + 1, cfg.config)
            IN IF request.method = "GET" /\ request.pathname \in {"/", "/stats"}
               THEN /\ log' = Append(log, answer(200, None))
                    /\ service' = svc
                    /\ stats' = Some([startTime |-> None, endTime |-> None,
                                      at |-> now,
                                      result |-> getStats(checks, None, None, now)])
                    /\ checks' = storeAfterInPeriod(checks)
                    /\ UNCHANGED <<now, sent, calls, inflight>>
               ELSE IF request.method = "POST" /\ request.pathname = "/trigger-check"
               THEN LET clock == now + MsPerMinute
                        r == processHeatCheck(svc, checks,
                                              check(svc.config.monitor, response),
                                              clock)
                        n == Len(checks) + 1
                    IN /\ now' = clock
                       /\ service' = svc
                       /\ checks' = r.repo
                       /\ sent' = sent \o [k \in 1..Len(r.notifications) |->
                                              [call |-> n, note |-> r.notifications[k]]]
                       /\ calls' = Append(calls, [instance |-> svc.id,
                                                  result |-> r.result])
                       /\ log' = log \o <<WorkerEvent("probe", env, "none",
                                                      "completed", 0, None)
                                              @@ [request |-> request],
                                          answer(200, None)>>
                       /\ stats' = None
                       /\ UNCHANGED inflight
               ELSE IF request.method = "POST" /\ request.pathname = "/send-stats-email"
               THEN \* the environment has no SMTP_HOST: config.smtp is undefined
                    /\ log' = Append(log, answer(400, Some("Email is not configured")))
                    /\ service' = svc
                    /\ UNCHANGED <<checks, now, sent, calls, stats, inflight>>
               ELSE /\ log' = Append(log, answer(404, None))
                    /\ service' = svc
                    /\ UNCHANGED <<checks, now, sent, calls, stats, inflight>>

\* fetch() for GET /stats without parameters, the request carrying
\* Authorization: Bearer <token>, or no such header
Fetch(env, token) ==
    FetchRequest(env,
                 [method |-> "GET", pathname |-> "/stats",
                  authorization |-> IF token = None THEN None
                                    ELSE Some(<<"Bearer ">> \o token[1])],
                 [kind |-> "status", status |-> 200, elapsed |-> 100])

\* the values of GRACE_PERIOD_FAILURES tried
GraceStrings ==
    { None, Some(<<"0">>), Some(<<"1">>), Some(<<"1", "1">>),
      Some(<<"a", "b", "c">>), Some(<<"3", ".", "7">>),
      Some(<<"2", "a", "b", "c">>) }

BaseEnv ==
    [TARGET_URL |-> Some(<<"https://example.com">>),
     API_BEARER_TOKEN |-> Some(<<"secret">>),
     GRACE_PERIOD_FAILURES |-> None]

Envs ==
    {[BaseEnv EXCEPT !.GRACE_PERIOD_FAILURES = g] : g \in GraceStrings}
    \cup {[BaseEnv EXCEPT !.TARGET_URL = None],
          [BaseEnv EXCEPT !.API_BEARER_TOKEN = Some(<<>>)]}

Tokens == {None, Some(<<"secret">>), Some(<<"guess">>)}

InitWorker == InitWith({DefaultGracePeriodFailures})

\* the number of scheduled() and fetch() invocations so far
Invocations == Cardinality({k \in DOMAIN log : log[k].event # "probe"})

Tick ==
    /\ Invocations < MaxTicks
    /\ \E env \in Envs : \E response \in GraceResponses : \E io \in StoreFaults :
           Scheduled(env, response, io)

Request ==
    /\ Invocations < MaxTicks
    /\ \E env \in Envs : \E token \in Tokens : Fetch(env, token)

NextWorker == Tick \/ Request

SpecWorker == InitWorker /\ [][NextWorker]_vars

\* the events appended to the log by the step
NewEvents == SubSeq(log', Len(log) + 1, Len(log'))

\* C19: when the store's read or save throws inside processHeatCheck, the
\* scheduled handler catches the error, logs it and completes normally,
\* with the store and the notifications left as they were; a later tick
\* runs processHeatCheck against that unchanged store.
C19_StoreFaultContained ==
    [][ \A k \in DOMAIN NewEvents :
            LET e == NewEvents[k]
            IN /\ (e.event = "scheduled" /\ e.fault # "none") =>
                      /\ e.outcome = "completed"
                      /\ e.error # None
                      /\ checks' = checks
                      /\ sent' = sent
                      /\ calls' = calls
               /\ (e.event = "scheduled" /\ e.fault = "none"
                       /\ e.outcome = "completed") =>
                      /\ Len(checks') = Len(checks) + 1
                      /\ SubSeq(checks', 1, Len(checks)) = checks
                      /\ checks'[Len(checks')].consecutiveFailures =
                             IF checks'[Len(checks')].up THEN 0
                             ELSE IF checks = <<>> THEN 1
                             ELSE checks[Len(checks)].consecutiveFailures + 1 ]_vars

C19_Witness ==
    /\ Len(log) = 4
    /\ log[2].event = "scheduled"
    /\ log[2].fault = "saveThrows"
    /\ log[2].outcome = "completed"
    /\ log[4].event = "scheduled"
    /\ log[4].fault = "none"
    /\ Len(checks) = 1
    /\ ~checks[1].up
    /\ checks[1].consecutiveFailures = 1
    /\ sent # <<>>

\* GRACE_PERIOD_FAILURES, when set, is a decimal integer of 1..10
IsIntegerInRange(s) ==
    /\ s # <<>>
    /\ \A k \in DOMAIN s : IsDigit(s[k])
    /\ digitsPrefix(s, 0, FALSE)[1] \in MinGracePeriodFailures..MaxGracePeriodFailures

\* the configuration failures of the environment env
ConfigurationFails(env) ==
    \/ Falsy(env.TARGET_URL)
    \/ Falsy(env.API_BEARER_TOKEN)
    \/ /\ ~Falsy(env.GRACE_PERIOD_FAILURES)
       /\ ~IsIntegerInRange(env.GRACE_PERIOD_FAILURES[1])

\* C20: when TARGET_URL or API_BEARER_TOKEN is missing or
\* GRACE_PERIOD_FAILURES is not an integer in 1..10, parseConfig throws: the
\* scheduled handler fails without a probe and the fetch handler answers
\* 500, so that no check runs with a threshold below 1.
C20_ConfigFailureAborts ==
    /\ \A k \in DOMAIN log :
           ConfigurationFails(log[k].env) =>
               /\ log[k].event # "probe"
               /\ log[k].event = "scheduled" => log[k].outcome = "rejected"
               /\ log[k].event = "fetch" => log[k].status = 500
    /\ service.config.monitor.gracePeriodFailures >= 1

----------------------------------------------------------------------------
(* The probe against its timer (src/monitor.ts).  A target answers `after` *)
(* milliseconds, or never ("hang"); check() arms a timer of pingTimeout    *)
(* that aborts the request.                                                *)

Targets ==
    LET afters == {100, DefaultPingTimeout, 2 * DefaultPingTimeout}
    IN {[kind |-> "status", status |-> s, after |-> a] : s \in {200, 500}, a \in afters}
       \cup {[kind |-> "error", message |-> m, after |-> a] :
                m \in {"Connection refused", ""}, a \in afters}
       \cup {[kind |-> "reject", after |-> a] : a \in afters}
       \cup {[kind |-> "hang"], [kind |-> "setup"]}

ProbeInFlight == inflight # <<>> /\ inflight[1].frame = "check"

ProbesDone == Cardinality({k \in DOMAIN log : log[k].event = "check"})

\* check() has returned or thrown: the rest of processHeatCheck() runs when
\* it returned
AfterCheck(target, timer, outcome, clock) ==
    /\ now' = clock
    /\ log' = Append(log, [event |-> "check", target |-> target, timer |-> timer,
                           outcome |-> outcome])
    /\ inflight' = <<>>
    /\ stats' = None
    /\ IF outcome.threw
       THEN UNCHANGED <<checks, sent, calls, service>>
       ELSE LET r == processHeatCheck(service, checks, outcome.value, clock)
                n == Len(calls) + 1
            IN /\ checks' = r.repo
               /\ sent' = sent \o [k \in 1..Len(r.notifications) |->
                                      [call |-> n, note |-> r.notifications[k]]]
               /\ calls' = Append(calls, [instance |-> service.id,
                                          result |-> r.result])
               /\ UNCHANGED service

\* check() starts: the timer is armed and fetch is awaited; when
\* new AbortController() throws there is neither
StartProbe(target) ==
    /\ inflight = <<>>
    /\ ProbesDone < MaxProbes
    /\ IF target.kind = "setup"
       THEN AfterCheck(target, "none",
                       checkOutcome(service.config.monitor,
                                    [kind |-> "setup", elapsed |-> 0]),
                       now)
       ELSE /\ inflight' = <<[frame |-> "check", startTime |-> now,
                              target |-> target, timer |-> "armed"]>>
            /\ UNCHANGED <<checks, now, service, sent, calls, stats, log>>

\* the target answers, or the connection fails, before the timer has fired:
\* fetch settles and clearTimeout(timeoutId) runs
TargetSettles ==
    /\ ProbeInFlight
    /\ LET p == inflight[1]
           t == p.target
       IN /\ t.kind # "hang"
          /\ t.after <= service.config.monitor.pingTimeout
          /\ AfterCheck(t, "cleared",
                        checkOutcome(service.config.monitor,
                                     IF t.kind = "status"
                                     THEN [kind |-> "status", status |-> t.status,
                                           elapsed |-> t.after]
                                     ELSE IF t.kind = "error"
                                     THEN [kind |-> "error", message |-> t.message,
                                           elapsed |-> t.after]
                                     ELSE [kind |-> "reject", elapsed |-> t.after]),
                        p.startTime + t.after)

\* the timer fires before fetch has settled: controller.abort() rejects the
\* fetch with an AbortError
TimerFires ==
    /\ ProbeInFlight
    /\ LET p == inflight[1]
           t == p.target
       IN /\ IF t.kind = "hang" THEN TRUE
             ELSE t.after >= service.config.monitor.pingTimeout
          /\ AfterCheck(t, "fired",
                        checkOutcome(service.config.monitor, [kind |-> "abort"]),
                        p.startTime + service.config.monitor.pingTimeout)

InitProbe == InitWith({MinGracePeriodFailures})

BeginProbe == \E target \in Targets : StartProbe(target)

NextProbe == BeginProbe \/ TargetSettles \/ TimerFires

SpecProbe == InitProbe /\ [][NextProbe]_vars

\* the check() calls that have ended
CheckEvents == {k \in DOMAIN log : log[k].event = "check"}

\* C21: check() never throws; a failure of any kind is returned with
\* up = false and a non-null err, a success with up = true and err = null,
\* so that every stored record has err = null exactly when it is up.
C21_CheckNeverThrows ==
    /\ \A k \in CheckEvents :
           /\ ~log[k].outcome.threw
           /\ log[k].outcome.value.up <=> log[k].outcome.value.err = None
           /\ ~log[k].outcome.value.up =>
                  /\ log[k].outcome.value.err # None
                  /\ log[k].outcome.value.err[1] # ""
           /\ log[k].outcome.value.up <=>
                  (log[k].timer = "cleared" /\ log[k].target.kind = "status"
                       /\ log[k].target.status \in expectedCodesDefault)
    /\ Len(checks) = Cardinality(CheckEvents)
    /\ \A i \in DOMAIN checks : checks[i].up <=> checks[i].err = None

C21_Witness ==
    /\ Len(checks) = 2
    /\ \E k \in CheckEvents :
           /\ log[k].target.kind = "reject"
           /\ ~log[k].outcome.threw
           /\ ~log[k].outcome.value.up
           /\ log[k].outcome.value.err # None
    /\ \E k \in CheckEvents :
           /\ log[k].target.kind = "error"
           /\ log[k].target.message = ""
           /\ log[k].timer = "cleared"
           /\ log[k].outcome.value.err = Some("Fetch failed")

Timeout == service.config.monitor.pingTimeout

\* C22: a probe in flight is always ended by the target or by the timer;
\* when the timer fires first the outcome is up = false, statusCode = null,
\* responseTime = the timeout and err = "Timeout after <timeout>ms"; when
\* the target answers first the timer is cleared and the outcome is not a
\* timeout.
C22_ProbeEndsByTimeout ==
    /\ ProbeInFlight =>
           /\ ENABLED (TargetSettles \/ TimerFires)
           /\ inflight[1].timer = "armed"
           /\ now = inflight[1].startTime
    /\ \A k \in CheckEvents :
           LET e == log[k]
               late == e.target.kind = "hang" \/
                       (e.target.kind # "setup" /\ e.target.after > Timeout)
           IN /\ late => e.timer = "fired"
              /\ e.timer = "fired" =>
                     /\ ~e.outcome.threw
                     /\ e.outcome.value =
                            [up |-> FALSE,
                             responseTime |-> Timeout,
                             err |-> Some("Timeout after " \o ToString(Timeout) \o "ms"),
                             statusCode |-> None]
                     /\ e.target.kind = "hang" \/ e.target.after >= Timeout
              /\ e.timer = "cleared" =>
                     /\ e.target.after <= Timeout
                     /\ e.outcome.value.err #
                            Some("Timeout after " \o ToString(Timeout) \o "ms")
                     /\ e.outcome.value.responseTime = e.target.after
              /\ e.outcome.value.responseTime <= Timeout

C22_Witness ==
    /\ \E k \in CheckEvents :
           /\ log[k].target.kind = "hang"
           /\ log[k].timer = "fired"
           /\ log[k].outcome.value.err = Some("Timeout after 10000ms")
    /\ \E k \in CheckEvents :
           /\ log[k].target.kind = "status"
           /\ log[k].target.after = Timeout
           /\ log[k].timer = "cleared"
           /\ log[k].outcome.value.up

----------------------------------------------------------------------------
(* The HTTP API (src/index.ts) under a valid configuration *)

ApiToken == <<"sec", "ret">>

ApiEnv == [BaseEnv EXCEPT !.API_BEARER_TOKEN = Some(ApiToken),
                          !.GRACE_PERIOD_FAILURES = Some(<<"1">>)]

\* Authorization headers: none, empty, the token, another token, another
\* scheme, the bare token, and the token with "Bearer " in its middle
AuthorizationHeaders ==
    { None,
      Some(<<>>),
      Some(<<"Bearer ">> \o ApiToken),
      Some(<<"Bearer ", "guess">>),
      Some(<<"Bearer ", "Bearer ">> \o ApiToken),
      Some(<<"Basic ">> \o ApiToken),
      Some(ApiToken),
      Some(<<"sec", "Bearer ", "ret">>) }

\* the four endpoints, an unknown path and an endpoint with the wrong method
Endpoints ==
    { <<"GET", "/">>, <<"GET", "/stats">>, <<"POST", "/trigger-check">>,
      <<"POST", "/send-stats-email">>, <<"GET", "/other">>,
      <<"GET", "/trigger-check">> }

Requests ==
    {[method |-> e[1], pathname |-> e[2], authorization |-> h] :
        e \in Endpoints, h \in AuthorizationHeaders}

InitApi == InitWith({MinGracePeriodFailures})

ApiRequest ==
    /\ Invocations < MaxRequests
    /\ \E request \in Requests : \E response \in GraceResponses :
           FetchRequest(ApiEnv, request, response)

NextApi == ApiRequest

SpecApi == InitApi /\ [][NextApi]_vars

\* the header is missing, or what it carries besides the scheme word is not
\* the token
MissingOrWrongToken(authHeader) ==
    \/ authHeader = None
    \/ SelectSeq(authHeader[1], LAMBDA piece : piece # "Bearer ") # ApiToken

\* C23: with a valid configuration a request to any endpoint whose
\* Authorization header is missing or carries a wrong token is answered 401
\* and runs no probe, saves no record, sends no notification and returns no
\* stats.
C23_AllEndpointsNeedToken ==
    [][ \A k \in DOMAIN NewEvents :
            LET e == NewEvents[k]
            IN (e.event = "fetch" /\ MissingOrWrongToken(e.request.authorization)) =>
                   /\ e.status = 401
                   /\ Len(NewEvents) = 1
                   /\ UNCHANGED <<checks, sent, calls, stats, now>> ]_vars

C23_Witness ==
    /\ Len(log) = 3
    /\ log[1].event = "probe"
    /\ log[2].status = 200
    /\ log[3].status = 401
    /\ log[3].request.pathname = "/trigger-check"
    /\ log[3].request.method = "POST"
    /\ log[3].request.authorization = Some(<<"Bearer ", "guess">>)
    /\ Len(checks) = 1

----------------------------------------------------------------------------
(* Handlers that take time: processHeatCheck() against its own promises *)

\* processHeatCheck() up to its return: the forEach has called every
\* handler and dropped the promises
AsyncCheck(response) ==
    LET clock == now + MsPerMinute
        r == processHeatCheck(service, checks,
                              check(service.config.monitor, response), clock)
        n == Len(calls) + 1
        started == startHandlers(r.notifications)
    IN /\ now' = clock
       /\ checks' = r.repo
       /\ sent' = sent \o [k \in 1..Len(r.notifications) |->
                              [call |-> n, note |-> r.notifications[k]]]
       /\ calls' = Append(calls, [instance |-> service.id, result |-> r.result])
       /\ log' = log \o [k \in 1..Len(started.completed) |->
                            [event |-> "handlerCompleted", call |-> n,
                             handler |-> started.completed[k].handler]]
       /\ inflight' = inflight \o [k \in 1..Len(started.pending) |->
                                      [frame |-> "handler", call |-> n,
                                       handler |-> started.pending[k].handler]]
       /\ stats' = None
       /\ UNCHANGED service

\* emailService.send() settles: the handler suspended at it runs to its end
EmailSettles ==
    \E k \in DOMAIN inflight :
        /\ inflight[k].frame = "handler"
        /\ inflight' = SubSeq(inflight, 1, k - 1)
                           \o SubSeq(inflight, k + 1, Len(inflight))
        /\ log' = Append(log, [event |-> "handlerCompleted",
                               call |-> inflight[k].call,
                               handler |-> inflight[k].handler])
        /\ UNCHANGED <<checks, now, service, sent, calls, stats>>

InitAsync == InitWith(MinGracePeriodFailures..MaxThreshold)

AsyncChecks ==
    /\ Len(calls) < MaxAsyncChecks
    /\ \E response \in GraceResponses : AsyncCheck(response)

NextAsync == AsyncChecks \/ EmailSettles

SpecAsync == InitAsync /\ [][NextAsync]_vars

\* C24: when processHeatCheck has returned, every handler call made for
\* that check has completed.
C24_RunsToCompletion ==
    \A k \in DOMAIN sent :
        \E e \in DOMAIN log :
            /\ log[e].event = "handlerCompleted"
            /\ log[e].call = sent[k].call
            /\ log[e].handler = sent[k].note.handler

----------------------------------------------------------------------------
(* The service over the D1 repository *)

\* processHeatCheck() over the table `checks`, the database answering
\* latest(1) from the order `ordered`; the row is inserted with saveD1
D1ProcessHeatCheck(response, step, ordered) ==
    LET clock == now + step
        checkResult == check(service.config.monitor, response)
        \* the service reads recentChecks[0] of latest(1)
        r == processHeatCheck(service, Reverse(latestD1(ordered, 1)),
                              checkResult, clock)
        n == Len(calls) + 1
    IN /\ now' = clock
       /\ checks' = saveD1(checks, r.result, None, clock)
       /\ sent' = sent \o [k \in 1..Len(r.notifications) |->
                              [call |-> n, note |-> r.notifications[k]]]
       /\ calls' = Append(calls, [instance |-> service.id, result |-> r.result])
       /\ stats' = None
       /\ UNCHANGED <<service, log, inflight>>

\* two checks less than a second apart, or a minute apart
D1Steps == {500, MsPerMinute}

InitD1 == InitWith(MinGracePeriodFailures..MaxThreshold)

D1Check ==
    /\ Len(checks) < MaxD1Checks
    /\ \E response \in GraceResponses : \E step \in D1Steps :
       \E ordered \in orderByTimestampDesc(checks) :
           D1ProcessHeatCheck(response, step, ordered)

NextD1 == D1Check

SpecD1 == InitD1 /\ [][NextD1]_vars

\* C25: latest(1) returns the record of the most recently completed save,
\* also among records of the same timestamp: every failing record counts one
\* more than the record saved before it, every success counts 0, and no
\* outage gets a second DOWN.
C25_LatestIsLastSaved ==
    /\ \A i \in DOMAIN checks :
           checks[i].consecutiveFailures =
               IF checks[i].up THEN 0
               ELSE IF i = 1 THEN 1
               ELSE checks[i - 1].consecutiveFailures + 1
    /\ \A i, j \in DOMAIN calls :
           (/\ i < j
            /\ NotesAt(i, "down", notificationHandlers[1]) # {}
            /\ NotesAt(j, "down", notificationHandlers[1]) # {})
           => \E m \in (i + 1)..(j - 1) : Up(m)

----------------------------------------------------------------------------
(* Overlapping processHeatCheck() invocations: a cron tick and POST        *)
(* /trigger-check each build their own service over the same store; every  *)
(* await is a point where the other invocation can run.                    *)

\* the invocations that ended with an error
Rejected == {e \in DOMAIN log : log[e].event = "processHeatCheckRejected"}

FramesStarted == Len(calls) + Len(inflight) + Cardinality(Rejected)

\* an invocation starts; monitor.check() has returned checkResult
Invoke(response) ==
    /\ FramesStarted < MaxOverlapChecks
    /\ Len(inflight) < MaxInFlight
    /\ inflight' = Append(inflight,
                          [frame |-> "processHeatCheck",
                           pc |-> "latest",
                           checkResult |-> check(service.config.monitor, response),
                           consecutiveFailures |-> 0,
                           row |-> 0])
    /\ now' = now + 1000
    /\ UNCHANGED <<checks, service, sent, calls, stats, log>>

\* const consecutiveFailures = await getConsecutiveFailures(repo)
ReadLatest(k) ==
    /\ inflight[k].frame = "processHeatCheck"
    /\ inflight[k].pc = "latest"
    /\ inflight' = [inflight EXCEPT ![k].pc = "save",
                                    ![k].consecutiveFailures =
                                        getConsecutiveFailures(storeAfterLatest(checks, 1))]
    /\ UNCHANGED <<checks, now, service, sent, calls, stats, log>>

\* await repo.save(result)
SaveResult(k) ==
    /\ inflight[k].frame = "processHeatCheck"
    /\ inflight[k].pc = "save"
    /\ LET f == inflight[k]
           result == [up |-> f.checkResult.up,
                      responseTime |-> f.checkResult.responseTime,
                      err |-> f.checkResult.err,
                      statusCode |-> f.checkResult.statusCode,
                      consecutiveFailures |->
                          newConsecutiveFailures(f.checkResult, f.consecutiveFailures)]
       IN checks' = save(checks, result, None, now)
    /\ inflight' = [inflight EXCEPT ![k].pc = "notify", ![k].row = Len(checks) + 1]
    /\ UNCHANGED <<now, service, sent, calls, stats, log>>

\* variant: the rejected await is swallowed and the invocation goes on to
\* its grace period branches
StoreRejects_GoesOn(k, message) ==
    /\ inflight[k].frame = "processHeatCheck"
    /\ inflight[k].pc \in {"latest", "save"}
    /\ message = "repo." \o inflight[k].pc \o " failed"
    /\ inflight' = [inflight EXCEPT ![k].pc = "notify"]
    /\ log' = Append(log, [event |-> "storeError", message |-> message])
    /\ UNCHANGED <<checks, now, service, sent, calls, stats>>

\* await repo.latest(1) or await repo.save(result) rejects: the invocation
\* ends there with that error, nothing having been written
StoreRejects(k, message) ==
    /\ inflight[k].frame = "processHeatCheck"
    /\ inflight[k].pc \in {"latest", "save"}
    /\ message = "repo." \o inflight[k].pc \o " failed"
    /\ inflight' = SubSeq(inflight, 1, k - 1) \o SubSeq(inflight, k + 1, Len(inflight))
    /\ log' = Append(log, [event |-> "processHeatCheckRejected",
                           message |-> message, at |-> inflight[k].pc])
    /\ UNCHANGED <<checks, now, service, sent, calls, stats>>

\* the grace period branches and return result
NotifyAndReturn(k) ==
    /\ inflight[k].frame = "processHeatCheck"
    /\ inflight[k].pc = "notify"
    /\ LET f == inflight[k]
           newCount == newConsecutiveFailures(f.checkResult, f.consecutiveFailures)
           notes == IF downCondition(f.checkResult, newCount, service.config)
                    THEN sendDownNotifications(service, newCount, f.checkResult.err)
                    ELSE IF upCondition(f.checkResult, f.consecutiveFailures,
                                        service.config)
                    THEN sendUpNotifications(service, f.consecutiveFailures)
                    ELSE <<>>
           n == Len(calls) + 1
       IN /\ sent' = sent \o [j \in 1..Len(notes) |-> [call |-> n, note |-> notes[j]]]
          /\ calls' = Append(calls,
                             [instance |-> service.id,
                              result |-> [up |-> f.checkResult.up,
                                          responseTime |-> f.checkResult.responseTime,
                                          err |-> f.checkResult.err,
                                          statusCode |-> f.checkResult.statusCode,
                                          consecutiveFailures |-> newCount]])
    /\ inflight' = SubSeq(inflight, 1, k - 1) \o SubSeq(inflight, k + 1, Len(inflight))
    /\ UNCHANGED <<checks, now, service, stats, log>>

InitOverlap == InitWith(MinGracePeriodFailures..MaxThreshold)

InvokeCheck == \E response \in GraceResponses : Invoke(response)

ResumeRead == \E k \in DOMAIN inflight : ReadLatest(k)

ResumeSave == \E k \in DOMAIN inflight : SaveResult(k)

ResumeNotify == \E k \in DOMAIN inflight : NotifyAndReturn(k)

StoreFails ==
    \E k \in DOMAIN inflight :
        \E message \in {"repo.latest failed", "repo.save failed"} :
            StoreRejects(k, message)

NextOverlap == InvokeCheck \/ ResumeRead \/ ResumeSave \/ ResumeNotify \/ StoreFails

SpecOverlap == InitOverlap /\ [][NextOverlap]_vars

\* the handler invocations of the given kind made to the first handler
NotesOfKind(kind) ==
    {k \in DOMAIN sent : /\ sent[k].note.kind = kind
                         /\ sent[k].note.handler = notificationHandlers[1]}

\* C26: with overlapping invocations the outcome is that of a sequential
\* order: every failing record counts one more than the record before it,
\* and every outage has at most one DOWN and at most one UP.
C26_OverlapIsSequential ==
    /\ \A i \in DOMAIN checks :
           ~checks[i].up =>
               checks[i].consecutiveFailures =
                   IF i = 1 THEN 1 ELSE checks[i - 1].consecutiveFailures + 1
    /\ Cardinality(NotesOfKind("down")) <= Cardinality(RunStarts(checks))
    /\ Cardinality(NotesOfKind("up")) <=
           Cardinality({i \in RunStarts(checks) :
                           \E j \in (i + 1)..Len(checks) : checks[j].up})

\* C27: a handler is invoked for a check only after the save of that check
\* has completed; when the store's read or save fails, processHeatCheck
\* ends with that error, sends no notification for the check and leaves the
\* store unchanged.
C27_PersistBeforeNotify ==
    [][ /\ sent' # sent =>
               /\ checks' = checks
               /\ \E k \in DOMAIN inflight :
                      /\ inflight[k].pc = "notify"
                      /\ inflight[k].row \in DOMAIN checks
                      /\ checks[inflight[k].row].up = inflight[k].checkResult.up
                      /\ checks[inflight[k].row].err = inflight[k].checkResult.err
                      /\ calls'[Len(calls')].result.consecutiveFailures =
                             checks[inflight[k].row].consecutiveFailures
                      /\ \A j \in (Len(sent) + 1)..Len(sent') :
                             sent'[j].call = Len(calls')
        /\ Len(log') > Len(log) =>
               /\ log'[Len(log')].event = "processHeatCheckRejected"
               /\ log'[Len(log')].message = "repo." \o log'[Len(log')].at \o " failed"
               /\ checks' = checks
               /\ sent' = sent
               /\ calls' = calls
               /\ Len(inflight') = Len(inflight) - 1
        /\ Len(calls') <= Len(checks') ]_vars

C27_Witness ==
    /\ \E e \in Rejected : log[e].at = "save"
    /\ \E e \in Rejected : log[e].at = "latest"
    /\ Len(calls) = 1
    /\ Len(checks) = 1
    /\ sent # <<>>
    /\ inflight = <<>>

----------------------------------------------------------------------------
(* A store that fails now and then, one processHeatCheck() after another *)

LossyCheck(response, io) ==
    LET clock == now + MsPerMinute
        checkResult == check(service.config.monitor, response)
        pr == processHeatCheckIO(service, checks, checkResult, clock, io)
        n == Len(calls) + 1
    IN /\ now' = clock
       /\ checks' = pr.repo
       /\ sent' = sent \o [k \in 1..Len(pr.notifications) |->
                              [call |-> n, note |-> pr.notifications[k]]]
       /\ calls' = IF pr.threw THEN calls
                   ELSE Append(calls, [instance |-> service.id, result |-> pr.result])
       /\ log' = Append(log, [event |-> "processHeatCheck", up |-> checkResult.up,
                              fault |-> io,
                              call |-> IF pr.threw THEN 0 ELSE n])
       /\ stats' = None
       /\ UNCHANGED <<service, inflight>>

InitLossy == InitWith(MinGracePeriodFailures..MaxThreshold)

LossyChecks ==
    /\ Len(log) < MaxLossyChecks
    /\ \E response \in GraceResponses : \E io \in StoreFaults :
           LossyCheck(response, io)

NextLossy == LossyChecks

SpecLossy == InitLossy /\ [][NextLossy]_vars

\* the invocations, in order, that sent a notification of the given kind
TicksWith(kind) ==
    {t \in DOMAIN log :
        log[t].call # 0 /\ NotesAt(log[t].call, kind, notificationHandlers[1]) # {}}

\* C28: a failed store call does not advance the stored counter, so the next
\* check whose save succeeds computes the count again from it: a saved
\* failure that reaches T sends DOWN, a saved success after a stored count
\* of at least T sends UP, and whatever calls fail, two DOWN notifications
\* are separated by a successful probe and two UP notifications by a
\* failing one.
C28_LostRecordKeepsAlert ==
    /\ Len(checks) = Len(calls)
    /\ Len(checks) = Cardinality({t \in DOMAIN log : log[t].fault = "none"})
    /\ \A i \in DOMAIN checks :
           LET previous == IF i = 1 THEN 0 ELSE checks[i - 1].consecutiveFailures
           IN /\ checks[i].consecutiveFailures =
                     IF checks[i].up THEN 0 ELSE previous + 1
              /\ \A h \in Handlers :
                     /\ Cardinality(NotesAt(i, "down", h)) =
                            Bit(~checks[i].up /\ previous + 1 = Threshold)
                     /\ Cardinality(NotesAt(i, "up", h)) =
                            Bit(checks[i].up /\ previous >= Threshold)
    /\ \A s, t \in TicksWith("down") :
           s < t => \E m \in (s + 1)..(t - 1) : log[m].up
    /\ \A s, t \in TicksWith("up") :
           s < t => \E m \in (s + 1)..(t - 1) : ~log[m].up
    /\ \A k \in DOMAIN sent : sent[k].call \in DOMAIN calls

C28_Witness ==
    /\ Threshold = 1
    /\ Len(log) = 4
    /\ ~log[1].up /\ log[1].fault = "saveThrows"
    /\ ~log[2].up /\ log[2].fault = "none"
    /\ log[3].up /\ log[3].fault = "saveThrows"
    /\ log[4].up /\ log[4].fault = "none"
    /\ TicksWith("down") = {2}
    /\ TicksWith("up") = {4}

----------------------------------------------------------------------------
(* GRACE_PERIOD_FAILURES edited between two scheduled() invocations *)

\* environments that differ in GRACE_PERIOD_FAILURES only
GraceEnvs ==
    {[BaseEnv EXCEPT !.GRACE_PERIOD_FAILURES = Some(<<g>>)] : g \in {"1", "2", "3"}}

InitReconfigured == InitWith({DefaultGracePeriodFailures})

\* every invocation parses the environment it is given and builds its own
\* service over the one repository
ReconfiguredTick ==
    /\ Len(checks) < MaxReconfiguredChecks
    /\ \E env \in GraceEnvs : \E response \in GraceResponses :
           Scheduled(env, response, "none")

NextReconfigured == ReconfiguredTick

SpecReconfigured == InitReconfigured /\ [][NextReconfigured]_vars

\* C29: every UP notification follows a DOWN notification sent during the
\* run of failing checks that the UP ends, whatever grace period each
\* invocation was configured with.
C29_UpFollowsDown ==
    \A k \in DOMAIN sent :
        sent[k].note.kind = "up" =>
            \E j \in DOMAIN sent :
                /\ sent[j].note.kind = "down"
                /\ sent[j].note.handler = sent[k].note.handler
                /\ sent[j].call < sent[k].call
                /\ \A i \in sent[j].call..(sent[k].call - 1) : ~checks[i].up

----------------------------------------------------------------------------
(* The same save calls made on the in-memory and on the D1 repository, as  *)
(* testCleanRepository is run on either: log holds the calls, checks the   *)
(* array of the in-memory repository, stats the answers to one query       *)

\* the D1 table after the save calls of the log, in insertion order
RECURSIVE tableAfter(_)
tableAfter(n) ==
    IF n = 0 THEN <<>>
    ELSE saveD1(tableAfter(n - 1), log[n].result, log[n].timestamp, log[n].at)

\* the result saved, as processHeatCheck builds it; the repositories do
\* not look into it
SavedResults ==
    { [up |-> TRUE, responseTime |-> 100, err |-> None,
       statusCode |-> Some(200), consecutiveFailures |-> 0] }

\* the optional second argument of save
TimestampArgs == {None, Some(MsPerMinute), Some(2 * MsPerMinute)}

Limits == 1..MaxSaves

RepoSave(result, timestamp, step) ==
    LET clock == now + step
    IN /\ now' = clock
       /\ checks' = save(checks, result, timestamp, clock)
       /\ log' = Append(log, [event |-> "save", result |-> result,
                              timestamp |-> timestamp, at |-> clock])
       /\ stats' = None
       /\ UNCHANGED <<service, sent, calls, inflight>>

RepoLatest(limit, ordered) ==
    /\ stats' = Some([query |-> "latest",
                      memory |-> latest(checks, limit),
                      d1 |-> latestD1(ordered, limit)])
    /\ checks' = storeAfterLatest(checks, limit)
    /\ UNCHANGED <<now, service, sent, calls, log, inflight>>

RepoInPeriod(startTime, endTime, ordered) ==
    /\ stats' = Some([query |-> "inPeriod",
                      memory |-> inPeriod(checks, startTime, endTime),
                      d1 |-> inPeriodD1(ordered, startTime, endTime)])
    /\ checks' = storeAfterInPeriod(checks)
    /\ UNCHANGED <<now, service, sent, calls, log, inflight>>

InitRepos == InitWith({DefaultGracePeriodFailures})

Saves ==
    /\ Len(log) < MaxSaves
    /\ \E result \in SavedResults : \E timestamp \in TimestampArgs :
       \E step \in D1Steps :
           RepoSave(result, timestamp, step)

LatestQueries ==
    \E limit \in Limits : \E ordered \in orderByTimestampDesc(tableAfter(Len(log))) :
        RepoLatest(limit, ordered)

InPeriodQueries ==
    \E startTime \in {0, MsPerMinute} : \E endTime \in {MsPerMinute, DayMs} :
    \E ordered \in orderByTimestampDesc(tableAfter(Len(log))) :
        RepoInPeriod(startTime, endTime, ordered)

NextRepos == Saves \/ LatestQueries \/ InPeriodQueries

SpecRepos == InitRepos /\ [][NextRepos]_vars

Ids(records) == [k \in DOMAIN records |-> records[k].id]

TimestampDescending(records) ==
    \A k \in 1..(Len(records) - 1) :
        records[k].timestamp >= records[k + 1].timestamp

\* C30: after the same save calls, with or without explicit timestamps,
\* latest(n) and inPeriod(start, end) of the in-memory repository and of
\* the D1 repository return the same records in the same order, and that
\* order is by timestamp descending in both.
C30_ReposInterchangeable ==
    stats # None =>
        /\ Ids(stats[1].memory) = Ids(stats[1].d1)
        /\ TimestampDescending(stats[1].memory)
        /\ TimestampDescending(stats[1].d1)

----------------------------------------------------------------------------
(* latest(limit) of the in-memory repository with every limit from 0 *)

LatestLimits == 0..(MaxLatestSaves + 1)

LatestCall(limit) ==
    /\ stats' = Some([query |-> "latest", limit |-> limit,
                      records |-> latest(checks, limit)])
    /\ checks' = storeAfterLatest(checks, limit)
    /\ UNCHANGED <<now, service, sent, calls, log, inflight>>

InitLatest == InitWith({DefaultGracePeriodFailures})

LatestSaves ==
    /\ Len(log) < MaxLatestSaves
    /\ \E result \in SavedResults : \E step \in D1Steps :
           RepoSave(result, None, step)

LatestCalls == \E limit \in LatestLimits : LatestCall(limit)

NextLatest == LatestSaves \/ LatestCalls

SpecLatest == InitLatest /\ [][NextLatest]_vars

\* C31: latest(n) returns the min(n, number of stored records) records
\* saved last, the last saved first; latest(0) returns none.
C31_LatestAtMostLimit ==
    stats # None =>
        LET n == stats[1].limit
            records == stats[1].records
            expected == IF n < Len(checks) THEN n ELSE Len(checks)
        IN /\ Len(records) = expected
           /\ \A k \in 1..expected : records[k] = checks[Len(checks) + 1 - k]

----------------------------------------------------------------------------
\* C32: when the queried range has an explicit end and its chronologically
\* last record is failing, the incident of that run is returned open
\* (endTime = null) with durationMinutes = round((now - startTime) / 60000),
\* now being the time of the query and not the end of the range, and
\* currentStatus is "down"; a succeeding record stored after the end of the
\* range changes none of this.
C32_RangeEndsMidOutage ==
    (StatsCalled /\ stats[1].endTime # None) =>
        LET rs == InRange
        IN (Len(rs) > 0 /\ ~rs[Len(rs)].up) =>
               LET first == rs[RunStartOf(rs, Len(rs))]
               IN /\ Result.currentStatus = "down"
                  /\ Len(Result.incidents) >= 1
                  /\ Result.incidents[1].endTime = None
                  /\ Result.incidents[1].startTime = toISOString(first.timestamp)
                  /\ Result.incidents[1].durationMinutes =
                         MathRound(stats[1].at - first.timestamp, MsPerMinute)

C32_Witness ==
    /\ StatsCalled
    /\ stats[1].endTime # None
    /\ Len(InRange) > 0
    /\ ~InRange[Len(InRange)].up
    /\ \E i \in 1..Len(checks) : checks[i].up /\ checks[i].timestamp > RangeEnd
    /\ Result.currentStatus = "down"
    /\ Result.incidents[1].endTime = None
    /\ Result.incidents[1].durationMinutes >= DayMs \div MsPerMinute
    /\ Result.incidents[1].durationMinutes #
           MathRound(RangeEnd - DateParse(Result.incidents[1].startTime), MsPerMinute)

----------------------------------------------------------------------------
\* the position in rs of the first succeeding record after position i, or 0
FirstUpAfter(rs, i) ==
    IF \E j \in (i + 1)..Len(rs) : rs[j].up
    THEN CHOOSE j \in (i + 1)..Len(rs) :
             rs[j].up /\ \A m \in (i + 1)..(j - 1) : ~rs[m].up
    ELSE 0

\* C33: every closed incident ends at the timestamp of the first succeeding
\* record after its failing run, not before its start, and lasts
\* round((endTime - startTime) / 60000) >= 0 minutes; its startTime and
\* errorMessage are those of the first record of the run, whatever failing
\* records follow in the run.
C33_ClosedIncident ==
    StatsCalled =>
        LET rs == InRange
            closedRuns == {i \in RunStarts(rs) : FirstUpAfter(rs, i) # 0}
            closed == SelectSeq(Result.incidents, LAMBDA inc : inc.endTime # None)
        IN /\ Len(closed) = Cardinality(closedRuns)
           /\ \A i \in closedRuns :
                  LET rank == Cardinality({j \in closedRuns : j >= i})
                      inc == closed[rank]
                      up == rs[FirstUpAfter(rs, i)]
                  IN /\ inc.startTime = toISOString(rs[i].timestamp)
                     /\ inc.errorMessage = OrElse(rs[i].err, "Unknown error")
                     /\ inc.endTime = Some(toISOString(up.timestamp))
                     /\ DateParse(inc.endTime[1]) >= DateParse(inc.startTime)
                     /\ inc.durationMinutes =
                            MathRound(up.timestamp - rs[i].timestamp, MsPerMinute)
                     /\ inc.durationMinutes >= 0

C33_Witness ==
    /\ StatsCalled
    /\ \E i \in RunStarts(InRange) :
           /\ FirstUpAfter(InRange, i) = i + 2
           /\ InRange[i + 1].err # InRange[i].err
           /\ InRange[i + 2].timestamp - InRange[i].timestamp = MsPerMinute
           /\ \E k \in DOMAIN Result.incidents :
                  /\ Result.incidents[k].endTime = Some(toISOString(InRange[i + 2].timestamp))
                  /\ Result.incidents[k].durationMinutes = 1
                  /\ Result.incidents[k].errorMessage = InRange[i].err[1]

----------------------------------------------------------------------------
\* C34: in every result of getStats over a range that holds records,
\* currentStatus is "down" exactly when the incident list is not empty and
\* its first element is open (endTime = null); the list is not empty exactly
\* when failedChecks >= 1; and there are at most failedChecks incidents.
C34_StatsFieldsAgree ==
    (StatsCalled /\ Result.totalChecks > 0) =>
        /\ (Result.currentStatus = "down") <=>
               (/\ Len(Result.incidents) >= 1
                /\ Result.incidents[1].endTime = None)
        /\ (Len(Result.incidents) >= 1) <=> (Result.failedChecks >= 1)
        /\ Len(Result.incidents) <= Result.failedChecks

C34_Witness ==
    /\ StatsCalled
    /\ Result.totalChecks = 4
    /\ Result.failedChecks = 3
    /\ Len(Result.incidents) = 2
    /\ Result.currentStatus = "down"
    /\ Result.incidents[1].endTime = None
    /\ Result.incidents[2].endTime # None

----------------------------------------------------------------------------
(* getStats() while processHeatCheck() calls go on: getStats has a single  *)
(* await, the read of the store; what runs between the read and the line   *)
(* after it is whatever else the worker does                               *)

\* getStats up to its await: now, end, start and the call of repo.inPeriod
StatsBegin(startTime, endTime) ==
    LET end == IF endTime = None THEN now ELSE endTime[1]
        start == IF startTime = None THEN now - DayMs ELSE startTime[1]
    IN /\ inflight = <<>>
       /\ stats = None
       /\ inflight' = <<[frame |-> "getStats", pc |-> "inPeriod",
                         startTime |-> startTime, endTime |-> endTime,
                         start |-> start, end |-> end, began |-> now,
                         chks |-> inPeriod(checks, start, end)]>>
       /\ checks' = storeAfterInPeriod(checks)
       /\ UNCHANGED <<now, service, sent, calls, stats, log>>

\* getStats from its await to its return
StatsResume(k) ==
    /\ inflight[k].frame = "getStats"
    /\ LET f == inflight[k]
       IN stats' = Some([startTime |-> f.startTime, endTime |-> f.endTime,
                         start |-> f.start, end |-> f.end,
                         began |-> f.began, at |-> now,
                         result |-> statsAfterRead(f.chks, checks, f.start, f.end, now)])
    /\ inflight' = SubSeq(inflight, 1, k - 1) \o SubSeq(inflight, k + 1, Len(inflight))
    /\ UNCHANGED <<checks, now, service, sent, calls, log>>

\* a processHeatCheck of another invocation
SnapshotCheck(response, step) ==
    LET clock == now + step
        r == processHeatCheck(service, checks,
                              check(service.config.monitor, response), clock)
        n == Len(calls) + 1
    IN /\ Len(checks) < MaxSnapshotChecks
       /\ now' = clock
       /\ checks' = r.repo
       /\ sent' = sent \o [k \in 1..Len(r.notifications) |->
                              [call |-> n, note |-> r.notifications[k]]]
       /\ calls' = Append(calls, [instance |-> service.id, result |-> r.result])
       /\ stats' = None
       /\ UNCHANGED <<service, log, inflight>>

InitSnapshot == InitWith({MinGracePeriodFailures})

SnapshotChecks ==
    \E response \in GraceResponses : \E step \in ClockSteps :
        SnapshotCheck(response, step)

StatsBegins ==
    \E startTime \in StartArgs : \E endTime \in EndArgs : StatsBegin(startTime, endTime)

StatsResumes == \E k \in DOMAIN inflight : StatsResume(k)

NextSnapshot == SnapshotChecks \/ StatsBegins \/ StatsResumes

SpecSnapshot == InitSnapshot /\ [][NextSnapshot]_vars

\* C35: the result of a getStats that went on while processHeatCheck calls
\* saved records is, in all its fields, the statistics of one prefix of the
\* sequence of saved records.
C35_ConsistentSnapshot ==
    stats # None =>
        \E p \in 0..Len(checks) :
            stats[1].result =
                getStats(SubSeq(checks, 1, p), Some(stats[1].start),
                         Some(stats[1].end), stats[1].at)

C35_Witness ==
    /\ stats # None
    /\ stats[1].at > stats[1].began
    /\ Len(checks) = 3
    /\ stats[1].result.totalChecks = 1
    /\ stats[1].result.currentStatus = "up"
    /\ stats[1].result.incidents = <<>>
    /\ ~checks[2].up
    /\ stats[1].start <= checks[2].timestamp
    /\ checks[2].timestamp <= stats[1].end

----------------------------------------------------------------------------
(* Ticks that keep coming: the target is down from the start and may       *)
(* recover once; a tick whose store call fails is lost, and the store       *)
(* fails MaxLostTicks times at most                                         *)

TargetDown == \A e \in DOMAIN log : log[e].event # "targetRecovers"

LostTicks == Cardinality({e \in DOMAIN log : log[e].event = "lostTick"})

\* what the target answers to a probe
TargetResponses ==
    IF TargetDown
    THEN {[kind |-> "error", message |-> "Connection refused", elapsed |-> 20]}
    ELSE {[kind |-> "status", status |-> 200, elapsed |-> 100]}

\* room in the store: one place is kept for the check after the recovery
Room == IF TargetDown THEN MaxLiveChecks - 1 ELSE MaxLiveChecks

\* a tick whose processHeatCheck goes through
SavedTick(response) ==
    LET clock == now + MsPerMinute
        pr == processHeatCheckIO(service, checks,
                                 check(service.config.monitor, response),
                                 clock, "none")
        n == Len(calls) + 1
    IN /\ Len(checks) < Room
       /\ now' = clock
       /\ checks' = pr.repo
       /\ sent' = sent \o [k \in 1..Len(pr.notifications) |->
                              [call |-> n, note |-> pr.notifications[k]]]
       /\ calls' = Append(calls, [instance |-> service.id, result |-> pr.result])
       /\ stats' = None
       /\ UNCHANGED <<service, log, inflight>>

\* a tick whose processHeatCheck ends with a rejected store call
LostTick(response, io) ==
    LET clock == now + MsPerMinute
        pr == processHeatCheckIO(service, checks,
                                 check(service.config.monitor, response),
                                 clock, io)
    IN /\ Len(checks) < Room
       /\ LostTicks < MaxLostTicks
       /\ io # "none"
       /\ now' = clock
       /\ checks' = pr.repo
       /\ sent' = sent \o [k \in 1..Len(pr.notifications) |->
                              [call |-> Len(calls) + 1, note |-> pr.notifications[k]]]
       /\ log' = Append(log, [event |-> "lostTick"])
       /\ UNCHANGED <<service, calls, stats, inflight>>

\* the target comes back and stays up
TargetRecovers ==
    /\ TargetDown
    /\ log' = Append(log, [event |-> "targetRecovers", at |-> now])
    /\ UNCHANGED <<checks, now, service, sent, calls, stats, inflight>>

InitLive == InitWith({MinGracePeriodFailures, DefaultGracePeriodFailures})

SavedTicks == \E response \in TargetResponses : SavedTick(response)

LostTickSteps ==
    \E response \in TargetResponses : \E io \in StoreFaults : LostTick(response, io)

NextLive == SavedTicks \/ LostTickSteps \/ TargetRecovers

\* the cron trigger keeps firing and the store ends up answering
SpecLive == InitLive /\ [][NextLive]_vars /\ WF_vars(SavedTicks)

DownSent == \E k \in DOMAIN sent : sent[k].note.kind = "down"

UpSent == \E k \in DOMAIN sent : sent[k].note.kind = "up"

\* C36: with ticks that keep coming and a store that ends up answering, a
\* target that stays down gets its DOWN notification, sent with the T-th
\* saved failing check; once the target is back for good after that, the UP
\* notification is sent and the stored consecutiveFailures is 0 again.
C36_EventuallyNotified ==
    /\ ([]TargetDown) =>
           <>(/\ DownSent
              /\ \A k \in DOMAIN sent :
                     sent[k].note.kind = "down" =>
                         checks[sent[k].call].consecutiveFailures = Threshold)
    /\ (DownSent /\ ~TargetDown) ~>
           (/\ UpSent
            /\ checks # <<>>
            /\ checks[Len(checks)].consecutiveFailures = 0)

C36_Witness ==
    /\ Threshold = DefaultGracePeriodFailures
    /\ LostTicks = MaxLostTicks
    /\ ~TargetDown
    /\ DownSent
    /\ UpSent
    /\ checks[Len(checks)].consecutiveFailures = 0

----------------------------------------------------------------------------
(* The grace period decision over every kind of probe outcome and a grace  *)
(* period read anew by every invocation                                     *)

InitDecision == InitWith({DefaultGracePeriodFailures})

DecisionTick ==
    /\ Len(checks) < MaxDecisionChecks
    /\ \E env \in GraceEnvs : \E response \in Responses \cup GraceResponses :
           Scheduled(env, response, "none")

NextDecision == DecisionTick

SpecDecision == InitDecision /\ [][NextDecision]_vars

\* the scheduled() invocations so far; here each of them made one call
ScheduledEvents == SelectSeq(log, LAMBDA e : e.event = "scheduled")

\* the inputs of the decision of call i
ThresholdAt(i) == parseConfig(ScheduledEvents[i].env).config.monitor.gracePeriodFailures

DecisionInputs(i) == <<PreviousCount(i), calls[i].result.up, ThresholdAt(i)>>

\* what the decision of call i was: the count and the notifications
ActionAt(i) == {sent[k].note.kind : k \in {m \in DOMAIN sent : sent[m].call = i}}

Decision(i) == <<calls[i].result.consecutiveFailures, ActionAt(i)>>

\* C37: two processHeatCheck calls with the same previous count, the same
\* outcome.up and the same threshold compute the same new count and take
\* the same action (none, DOWN or UP), whatever the timestamps, response
\* times, status codes, error texts and earlier records.
C37_DecisionFromThreeInputs ==
    \A i, j \in DOMAIN calls :
        DecisionInputs(i) = DecisionInputs(j) => Decision(i) = Decision(j)

C37_Witness ==
    \E i, j \in DOMAIN calls :
        /\ i + 1 < j
        /\ DecisionInputs(i) = <<0, FALSE, 1>>
        /\ DecisionInputs(j) = <<0, FALSE, 1>>
        /\ calls[i].result.statusCode # calls[j].result.statusCode
        /\ calls[i].result.err # calls[j].result.err
        /\ calls[i].result.responseTime # calls[j].result.responseTime
        /\ Decision(i) = <<1, {"down"}>>
        /\ Decision(j) = <<1, {"down"}>>

----------------------------------------------------------------------------
\* the probe outcome of a call, without the count the service adds to it
OutcomeOf(result) ==
    [up |-> result.up, responseTime |-> result.responseTime,
     err |-> result.err, statusCode |-> result.statusCode]

\* C38: a processHeatCheck that follows one with the same probe outcome
\* leaves the store, the stored consecutiveFailures and the notifications
\* sent as the first one left them.
C38_SecondCallChangesNothing ==
    [][ (/\ Len(calls) >= 1
         /\ Len(calls') = Len(calls) + 1
         /\ OutcomeOf(calls'[Len(calls')].result) = OutcomeOf(calls[Len(calls)].result))
        => (/\ checks' = checks
            /\ sent' = sent) ]_vars

====
